---- MODULE Spec2Model ----
(***************************************************************************)
(* RAW development pipeline of RapidRAW-Mobile.                            *)
(*                                                                         *)
(*   RawDevelop::develop_intermediate   src-tauri/rawler/src/imgop/develop.rs *)
(*   develop_internal / check_cancel    src-tauri/src/raw_processing.rs    *)
(*   remove_raw_artifacts_and_enhance   pwa/wasm/src/core/image_processing.rs *)
(*                                                                         *)
(* Pixel contents of an Intermediate are kept symbolically (which          *)
(* operations were applied, with which arguments); the per-pixel           *)
(* arithmetic of the highlight stage and of the chroma filter is modelled  *)
(* numerically on IEEE-754 binary32 values in the later sections.          *)
(***************************************************************************)
EXTENDS Integers, Sequences, FiniteSets, TLC

VARIABLES
    caller,             \* "direct": develop_intermediate called on its own; "internal": through develop_internal
    steps,              \* RawDevelop.steps : Vec<ProcessingStep>
    demosaic_algorithm, \* RawDevelop.demosaic_algorithm
    rawimage,           \* the working copy `let mut rawimage = rawimage.clone()`
    intermediate,       \* `let mut intermediate`
    wb,                 \* local `wb` of the Calibrate block
    xyz2cam,            \* local `xyz2cam` of the Calibrate block
    pc,                 \* position in develop_intermediate / develop_internal
    err,                \* the Err value returned, "" when none
    ran,                \* history: the stage blocks entered, in order
    aa_used,            \* history: places where CropActiveArea was consulted and acted on
    wb_kept,            \* history: Calibrate ran and did not force wb to 1.0
    file,               \* develop_internal: what file_bytes decodes to
    fast_demosaic,      \* develop_internal: argument
    cancel_token,       \* develop_internal: Option<(tracker, generation)>, the generation captured
    tracker,            \* the shared AtomicUsize of the cancel token
    image,              \* develop_internal: the DynamicImage returned, None before
    polls,              \* history: the check_cancel call sites evaluated, in order
    original_white_level, \* develop_internal: f32, line 60
    original_black_level, \* develop_internal: f32, line 66
    highlight_compression, \* develop_internal: argument, f32
    pixel,              \* the element `p` of the ThreeColor buffer the highlight closure visits
    sample,             \* history: the value of `p` before the visit
    locals,             \* the locals of lines 87-90 and of the closure, once computed
    hpc,                \* position in the highlight stage: "off", "levels", "pixel", "visited"
    buffer,             \* remove_raw_artifacts_and_enhance: the Rgb32F buffer, row by row
    ycbcr_buffer,       \* remove_raw_artifacts_and_enhance: (y, cb, cr) of every pixel
    rows,               \* the rows the second par_chunks_mut has finished
    out_chroma,         \* history: (out_cb, out_cr) of every pixel written
    dpc,                \* position in remove_raw_artifacts_and_enhance: "off", "convert", "filter", "done"
    calibration,        \* Lens.calibration: Option<Calibration>, the elements in table order
    focal_length,       \* get_distortion_params: argument, f32
    aperture,           \* get_distortion_params: argument, Option<f32>
    distance,           \* get_distortion_params: argument, Option<f32>
    params,             \* what get_distortion_params returned: Option<LensDistortionParams>
    lpc,                \* position in get_distortion_params: "off", "call", "returned"
    loaded,             \* what load_base_image_from_bytes returned: Option<Result<DynamicImage>>
    decoded,            \* what decode_image_from_bytes returned: Option<Result<DynamicImage>>
    lens_db,            \* state.lens_db behind its mutex: poisoned, or Option<LensDatabase>
    maker,              \* get_lens_distortion_params: the maker asked for
    model,              \* get_lens_distortion_params: the lens name asked for
    reply,              \* what get_lens_distortion_params returned
    ai_pc,              \* where process_inpainting is
    full_source_image,  \* process_inpainting: the dimensions of the source image
    sent,               \* process_inpainting: the requests sent so far, in order
    response,           \* process_inpainting: the statuses of the responses received, in order
    inpainted,          \* what process_inpainting returned: Option<Result<RgbaImage>>
    tiff                \* what RawDevelop::develop wrote and returned

(* the variables develop_intermediate does not touch *)
outside == <<file, fast_demosaic, cancel_token, tracker, image, polls>>

(* the state of remove_raw_artifacts_and_enhance *)
denoise == <<buffer, ycbcr_buffer, rows, out_chroma, dpc>>

(* the state of Lens::get_distortion_params *)
lens == <<calibration, focal_length, aperture, distance, params, lpc>>

(* the state of load_base_image_from_bytes and of decode_image_from_bytes *)
(* the state of get_lens_distortion_params, of process_inpainting and of    *)
(* RawDevelop::develop                                                      *)
command == <<lens_db, maker, model, reply>>
inpaint == <<ai_pc, full_source_image, sent, response, inpainted>>
entry == <<command, inpaint, tiff>>

loader == <<loaded, decoded, entry>>

(* the per-pixel state of the highlight stage, the chroma filter, the lens resolver *)
numeric == <<original_white_level, original_black_level, highlight_compression,
             pixel, sample, locals, hpc, denoise, lens, loader>>

vars == <<caller, steps, demosaic_algorithm, rawimage, intermediate, wb, xyz2cam,
          pc, err, ran, aa_used, wb_kept, outside, numeric>>

----------------------------------------------------------------------------
(* Option<T> as a sequence of length 0 or 1 *)
None == <<>>
Some(v) == <<v>>
IsSome(o) == Len(o) = 1
Unwrap(o) == o[1]
UnwrapOr(o, d) == IF IsSome(o) THEN o[1] ELSE d

(* enum ProcessingStep, in declaration order *)
ProcessingStep == <<"Rescale", "Demosaic", "CropActiveArea", "WhiteBalance",
                    "Calibrate", "CropDefault", "SRgb">>

StepNames == {ProcessingStep[i] : i \in 1..Len(ProcessingStep)}

(* impl Default for RawDevelop: the steps vector *)
DefaultSteps == ProcessingStep

(* mutant of Contains: only the first entry of the list is looked at *)
ContainsHead(list, s) == list # <<>> /\ list[1] = s

(* Vec::contains *)
Contains(list, s) == \E i \in 1..Len(list) : list[i] = s

(* Vec::retain(|&step| step != s) *)
RetainNot(list, s) == SelectSeq(list, LAMBDA t : t # s)

----------------------------------------------------------------------------
(* Geometry: Dim2 and Rect of rawler::imgop.  A Rect is a point p and a     *)
(* dimension d.                                                             *)
Dim2(w, h) == [w |-> w, h |-> h]
Rect(x, y, w, h) == [p |-> [x |-> x, y |-> y], d |-> Dim2(w, h)]

Min2(a, b) == IF a <= b THEN a ELSE b
Max2(a, b) == IF a >= b THEN a ELSE b

(* pixels.rect(): the full extent of a buffer *)
RectOfDim(d) == Rect(0, 0, d.w, d.h)

(* Rect::is_empty *)
RectIsEmpty(r) == r.d.w = 0 \/ r.d.h = 0

(* Rect::intersection *)
RectIntersection(a, b) ==
    LET x1 == Max2(a.p.x, b.p.x)
        y1 == Max2(a.p.y, b.p.y)
        x2 == Min2(a.p.x + a.d.w, b.p.x + b.d.w)
        y2 == Min2(a.p.y + a.d.h, b.p.y + b.d.h)
    IN  Rect(x1, y1, Max2(x2 - x1, 0), Max2(y2 - y1, 0))

(* Rect::adapt: the rectangle re-expressed relative to master's origin *)
RectAdapt(r, master) == Rect(r.p.x - master.p.x, r.p.y - master.p.y, r.d.w, r.d.h)

(* Rect::scale(scale_factor) with scale_factor = num / den: every field is  *)
(* multiplied by the factor and truncated back to usize                     *)
RectScale(r, num, den) ==
    Rect((r.p.x * num) \div den, (r.p.y * num) \div den,
         (r.d.w * num) \div den, (r.d.h * num) \div den)

----------------------------------------------------------------------------
(* Demosaic: which algorithm the Monochrome/CFA branch picks *)

(* config.cfa of a RawPhotometricInterpretation::Cfa image *)
Cfa(name, w, h, rgb, uniq) ==
    [name |-> name, width |-> w, height |-> h, is_rgb |-> rgb, unique_colors |-> uniq]

(* mutant of DemosaicSelect: the X-Trans test looks at the tile width only *)
DemosaicSelectByWidth(cfa, alg) ==
    IF cfa.is_rgb
    THEN IF cfa.width = 6
         THEN [variant |-> "ThreeColor",
               algo |-> IF alg = "Quality" THEN "XTransDemosaic" ELSE "XTransSuperpixelDemosaic"]
         ELSE [variant |-> "ThreeColor",
               algo |-> IF alg = "Quality" THEN "PPGDemosaic" ELSE "SuperpixelQuarterRes3Channel"]
    ELSE IF cfa.unique_colors = 4
         THEN [variant |-> "FourColor",
               algo |-> IF alg = "Quality" THEN "Bilinear4Channel" ELSE "Superpixel4Channel"]
         ELSE [variant |-> "Monochrome", algo |-> "none"]

(* lines 174-215: the selection, first matching rule *)
DemosaicSelect(cfa, alg) ==
    IF cfa.is_rgb
    THEN IF cfa.width = 6 /\ cfa.height = 6
         THEN [variant |-> "ThreeColor",
               algo |-> IF alg = "Quality" THEN "XTransDemosaic" ELSE "XTransSuperpixelDemosaic"]
         ELSE [variant |-> "ThreeColor",
               algo |-> IF alg = "Quality" THEN "PPGDemosaic" ELSE "SuperpixelQuarterRes3Channel"]
    ELSE IF cfa.unique_colors = 4
         THEN [variant |-> "FourColor",
               algo |-> IF alg = "Quality" THEN "Bilinear4Channel" ELSE "Superpixel4Channel"]
         ELSE [variant |-> "Monochrome", algo |-> "none"]

(* lines 168-172: the region handed to the demosaic *)
DemosaicRoi(list, raw, pixels_rect) ==
    IF Contains(list, "CropActiveArea")
    THEN UnwrapOr(raw.active_area, pixels_rect)
    ELSE pixels_rect

(* Demosaic::demosaic output size: the region's size for the full-resolution *)
(* algorithms, half of it in each axis for the superpixel ones               *)
DemosaicDim(alg, roi) ==
    IF alg = "Quality" THEN roi.d ELSE Dim2(roi.d.w \div 2, roi.d.h \div 2)

----------------------------------------------------------------------------
(* Calibrate: white balance vector and colour matrix *)

IsNan(c) == c = "NaN"

(* mutant of CalibrateWb: the NaN coefficients are not replaced *)
CalibrateWbKeepNan(list, wb_coeffs) ==
    IF ~Contains(list, "WhiteBalance") THEN <<"1.0", "1.0", "1.0", "1.0">> ELSE wb_coeffs

(* lines 225-235 *)
CalibrateWb(list, wb_coeffs) ==
    LET fixed == [i \in 1..4 |-> IF IsNan(wb_coeffs[i]) THEN "1.0" ELSE wb_coeffs[i]]
    IN  IF ~Contains(list, "WhiteBalance") THEN <<"1.0", "1.0", "1.0", "1.0">> ELSE fixed

(* mutant of FindIlluminant: the first entry is taken, whatever its illuminant *)
FindFirstIlluminant(color_matrix, illuminant) ==
    IF color_matrix = <<>> THEN None ELSE Some(Head(color_matrix).m)

(* lines 237-242: color_matrix.iter().find(|(illuminant, _)| illuminant == D65) *)
RECURSIVE FindIlluminant(_, _)
FindIlluminant(color_matrix, illuminant) ==
    IF color_matrix = <<>> THEN None
    ELSE IF Head(color_matrix).illuminant = illuminant THEN Some(Head(color_matrix).m)
    ELSE FindIlluminant(Tail(color_matrix), illuminant)

(* lines 244-250: chunks_exact(3), the first four chunks fill the rows of   *)
(* xyz2cam, rows without a chunk stay [0.0; 3]                              *)
Xyz2Cam(m) ==
    [i \in 1..4 |-> IF i <= Len(m) \div 3
                    THEN <<m[3 * i - 2], m[3 * i - 1], m[3 * i]>>
                    ELSE <<0, 0, 0>>]

(* mutant of CalibrateVariant: the transform keeps the channel count *)
CalibrateVariantKeep(v) == v

(* lines 252-256: the variant after the colour transform *)
CalibrateVariant(v) ==
    CASE v = "Monochrome" -> "Monochrome"
      [] v = "ThreeColor" -> "ThreeColor"
      [] v = "FourColor"  -> "ThreeColor"

CalibrateMap(v) ==
    CASE v = "Monochrome" -> "none"
      [] v = "ThreeColor" -> "map_3ch_to_rgb"
      [] v = "FourColor"  -> "map_4ch_to_rgb"

D65Error == "Calibration failed: Color matrix for D65 illuminant not found"

----------------------------------------------------------------------------
(* RawDevelop::develop_intermediate, one action per block of the function *)

NoIntermediate ==
    [variant |-> "none", dim |-> Dim2(0, 0), scaled |-> FALSE, demosaic |-> "none",
     roi |-> None, map |-> "none", wb |-> <<>>, xyz2cam |-> <<>>, crop |-> None,
     gamma |-> "none", highlight |-> "none"]

(* lines 138-151: the variant the channel count gives *)
VariantOfCpp(cpp) ==
    CASE cpp = 1 -> "Monochrome"
      [] cpp = 3 -> "ThreeColor"
      [] cpp = 4 -> "FourColor"
      [] OTHER   -> "todo"

(* lines 133-136: `if steps.contains(Rescale) { rawimage.apply_scaling()?; }` *)
Rescale ==
    /\ pc = "rescale"
    /\ UNCHANGED <<outside, numeric>>
    /\ UNCHANGED <<caller, steps, demosaic_algorithm, intermediate, wb, xyz2cam, aa_used, wb_kept>>
    /\ IF Contains(steps, "Rescale")
       THEN /\ ran' = Append(ran, "Rescale")
            /\ \/ /\ rawimage' = [rawimage EXCEPT !.scaled = TRUE]
                  /\ pc' = "construct"
                  /\ err' = err
               \/ /\ rawimage' = rawimage
                  /\ pc' = "err"
                  /\ err' = "apply_scaling failed"
       ELSE /\ pc' = "construct"
            /\ UNCHANGED <<rawimage, err, ran>>

(* lines 138-151: the first Intermediate, by channel count *)
Construct ==
    /\ pc = "construct"
    /\ UNCHANGED <<outside, numeric>>
    /\ UNCHANGED <<caller, steps, demosaic_algorithm, rawimage, wb, xyz2cam, err, ran, aa_used, wb_kept>>
    /\ IF VariantOfCpp(rawimage.cpp) = "todo"
       THEN /\ pc' = "panic"
            /\ intermediate' = intermediate
       ELSE /\ pc' = "demosaic"
            /\ intermediate' = [NoIntermediate EXCEPT
                                  !.variant = VariantOfCpp(rawimage.cpp),
                                  !.dim = Dim2(rawimage.width, rawimage.height),
                                  !.scaled = rawimage.scaled]

(* mutant of DemosaicResult: the demosaiced image keeps the size it had *)
DemosaicResultSameSize(list, alg, raw, im) ==
    IF raw.photometric = "Cfa" /\ im.variant = "Monochrome"
    THEN LET roi == DemosaicRoi(list, raw, RectOfDim(im.dim))
             sel == DemosaicSelect(raw.cfa, alg)
         IN  IF sel.variant = "Monochrome"
             THEN im
             ELSE [im EXCEPT !.variant = sel.variant, !.demosaic = sel.algo, !.roi = Some(roi)]
    ELSE im

(* lines 153-222 *)
DemosaicResult(list, alg, raw, im) ==
    IF raw.photometric = "Cfa" /\ im.variant = "Monochrome"
    THEN LET roi == DemosaicRoi(list, raw, RectOfDim(im.dim))
             sel == DemosaicSelect(raw.cfa, alg)
         IN  IF sel.variant = "Monochrome"
             THEN im
             ELSE [im EXCEPT !.variant = sel.variant, !.demosaic = sel.algo,
                             !.roi = Some(roi), !.dim = DemosaicDim(alg, roi)]
    ELSE im

Demosaic ==
    /\ pc = "demosaic"
    /\ UNCHANGED <<outside, numeric>>
    /\ pc' = "calibrate"
    /\ UNCHANGED <<caller, steps, demosaic_algorithm, rawimage, wb, xyz2cam, err, wb_kept>>
    /\ IF Contains(steps, "Demosaic")
       THEN /\ ran' = Append(ran, "Demosaic")
            /\ intermediate' = DemosaicResult(steps, demosaic_algorithm, rawimage, intermediate)
            /\ aa_used' = IF /\ rawimage.photometric = "Cfa"
                             /\ intermediate.variant = "Monochrome"
                             /\ Contains(steps, "CropActiveArea")
                          THEN aa_used \cup {"Demosaic"} ELSE aa_used
       ELSE UNCHANGED <<intermediate, ran, aa_used>>

(* lines 224-257 *)
Calibrate ==
    /\ pc = "calibrate"
    /\ UNCHANGED <<outside, numeric>>
    /\ UNCHANGED <<caller, steps, demosaic_algorithm, rawimage, aa_used>>
    /\ IF Contains(steps, "Calibrate")
       THEN LET w == CalibrateWb(steps, rawimage.wb_coeffs)
                color_matrix == FindIlluminant(rawimage.color_matrix, "D65")
            IN  /\ ran' = Append(ran, "Calibrate")
                /\ wb' = w
                /\ IF IsSome(color_matrix)
                   THEN /\ xyz2cam' = Xyz2Cam(Unwrap(color_matrix))
                        /\ intermediate' =
                             IF intermediate.variant = "Monochrome" THEN intermediate
                             ELSE [intermediate EXCEPT
                                     !.variant = CalibrateVariant(intermediate.variant),
                                     !.map = CalibrateMap(intermediate.variant),
                                     !.wb = w,
                                     !.xyz2cam = Xyz2Cam(Unwrap(color_matrix))]
                        /\ wb_kept' = Contains(steps, "WhiteBalance")
                        /\ pc' = "crop"
                        /\ err' = err
                   ELSE /\ pc' = "err"
                        /\ err' = D65Error
                        /\ UNCHANGED <<xyz2cam, intermediate, wb_kept>>
       ELSE /\ pc' = "crop"
            /\ UNCHANGED <<intermediate, wb, xyz2cam, err, ran, wb_kept>>

(* lines 260-273: the crop rectangle in the Intermediate's coordinates *)
DefaultCropRect(list, raw, im) ==
    LET crop0 == Unwrap(raw.crop_area)
        crop1 == IF /\ Contains(list, "Demosaic")
                    /\ Contains(list, "CropActiveArea")
                    /\ IsSome(raw.active_area)
                 THEN RectAdapt(RectIntersection(crop0, Unwrap(raw.active_area)),
                                Unwrap(raw.active_area))
                 ELSE crop0
        original_width == IF IsSome(raw.active_area)
                          THEN Unwrap(raw.active_area).d.w ELSE raw.width
    IN  IF original_width > 0 /\ im.dim.w # original_width
        THEN RectScale(crop1, im.dim.w, original_width)
        ELSE crop1

(* mutant of CropDefault: a non-empty crop is applied even when its size is *)
(* the current size                                                         *)
CropDefaultAlways ==
    /\ pc = "crop"
    /\ UNCHANGED <<outside, numeric>>
    /\ pc' = "srgb"
    /\ UNCHANGED <<caller, steps, demosaic_algorithm, rawimage, wb, xyz2cam, err, wb_kept>>
    /\ IF Contains(steps, "CropDefault")
       THEN /\ ran' = Append(ran, "CropDefault")
            /\ IF IsSome(rawimage.crop_area)
               THEN LET crop == DefaultCropRect(steps, rawimage, intermediate)
                    IN  /\ intermediate' =
                             IF ~RectIsEmpty(crop)
                             THEN [intermediate EXCEPT !.crop = Some(crop), !.dim = crop.d]
                             ELSE intermediate
                        /\ aa_used' = IF /\ Contains(steps, "Demosaic")
                                         /\ Contains(steps, "CropActiveArea")
                                         /\ IsSome(rawimage.active_area)
                                      THEN aa_used \cup {"CropDefault"} ELSE aa_used
               ELSE UNCHANGED <<intermediate, aa_used>>
       ELSE UNCHANGED <<intermediate, ran, aa_used>>

(* lines 259-283 *)
CropDefault ==
    /\ pc = "crop"
    /\ UNCHANGED <<outside, numeric>>
    /\ pc' = "srgb"
    /\ UNCHANGED <<caller, steps, demosaic_algorithm, rawimage, wb, xyz2cam, err, wb_kept>>
    /\ IF Contains(steps, "CropDefault")
       THEN /\ ran' = Append(ran, "CropDefault")
            /\ IF IsSome(rawimage.crop_area)
               THEN LET crop == DefaultCropRect(steps, rawimage, intermediate)
                    IN  /\ intermediate' =
                             IF ~RectIsEmpty(crop) /\ crop.d # intermediate.dim
                             THEN [intermediate EXCEPT !.crop = Some(crop), !.dim = crop.d]
                             ELSE intermediate
                        /\ aa_used' = IF /\ Contains(steps, "Demosaic")
                                         /\ Contains(steps, "CropActiveArea")
                                         /\ IsSome(rawimage.active_area)
                                      THEN aa_used \cup {"CropDefault"} ELSE aa_used
               ELSE UNCHANGED <<intermediate, aa_used>>
       ELSE UNCHANGED <<intermediate, ran, aa_used>>

(* lines 285-291 *)
GammaOf(v) == IF v = "Monochrome" THEN "srgb_apply_gamma" ELSE "srgb_apply_gamma_n"

(* lines 285-293 *)
SRgb ==
    /\ pc = "srgb"
    /\ UNCHANGED <<outside, numeric>>
    /\ pc' = IF caller = "internal" THEN "levels" ELSE "ok"
    /\ UNCHANGED <<caller, steps, demosaic_algorithm, rawimage, wb, xyz2cam, err, aa_used, wb_kept>>
    /\ IF Contains(steps, "SRgb")
       THEN /\ ran' = Append(ran, "SRgb")
            /\ intermediate' = [intermediate EXCEPT !.gamma = GammaOf(intermediate.variant)]
       ELSE UNCHANGED <<intermediate, ran>>

DevelopIntermediate == Rescale \/ Construct \/ Demosaic \/ Calibrate \/ CropDefault \/ SRgb

----------------------------------------------------------------------------
(* Inputs *)

RawW == 8
RawH == 6

(* the buffer of the chroma filter *)
DnW == 5
DnH == 2

Algorithms == {"Quality", "Speed"}

(* step lists: every subset of the steps, in declaration order, and in      *)
(* reverse order with the first step repeated at the end                    *)
CanonList(S) == SelectSeq(ProcessingStep, LAMBDA s : s \in S)
Reverse(q) == [i \in 1..Len(q) |-> q[Len(q) + 1 - i]]
ShuffledList(S) ==
    LET c == CanonList(S)
    IN  IF c = <<>> THEN c ELSE Reverse(c) \o <<c[1]>>
AllStepLists == {CanonList(S) : S \in SUBSET StepNames} \cup {ShuffledList(S) : S \in SUBSET StepNames}
ListsOver(base, opt) == {CanonList(base \cup T) : T \in SUBSET opt}

XTrans == Cfa("XTRANS", 6, 6, TRUE, 3)
Bayer  == Cfa("RGGB", 2, 2, TRUE, 3)
CfaSet ==
    {XTrans, Bayer,
     Cfa("RGB6x2", 6, 2, TRUE, 3),
     Cfa("CYGM", 2, 2, FALSE, 4),
     Cfa("RGBE", 2, 2, FALSE, 4),
     Cfa("CMY", 2, 2, FALSE, 3),
     Cfa("CMYGW", 4, 4, FALSE, 5)}

(* channel count, photometric interpretation, CFA descriptor *)
Sensors ==
    {<<1, "Cfa", c>> : c \in CfaSet}
    \cup {<<1, "LinearRaw", Bayer>>, <<3, "LinearRaw", Bayer>>, <<4, "LinearRaw", Bayer>>,
          <<3, "Cfa", Bayer>>, <<4, "Cfa", Cfa("CYGM", 2, 2, FALSE, 4)>>,
          <<2, "LinearRaw", Bayer>>}
FewSensors ==
    {<<1, "Cfa", Bayer>>, <<1, "Cfa", Cfa("CYGM", 2, 2, FALSE, 4)>>,
     <<1, "Cfa", Cfa("CMY", 2, 2, FALSE, 3)>>, <<3, "LinearRaw", Bayer>>,
     <<4, "LinearRaw", Bayer>>}

(* white balance coefficients as the decoder reports them *)
WbValues == <<"2.1", "1.0", "1.6", "0.9">>
WbSet == {[i \in 1..4 |-> IF i \in N THEN "NaN" ELSE WbValues[i]] : N \in SUBSET (1..4)}
WbMixed == <<"2.1", "1.0", "1.6", "NaN">>

(* colour matrices: entry k of the matrix of illuminant number n is 100 n + k *)
Matrix(n, len) == [k \in 1..len |-> 100 * n + k]
Entry(illuminant, n, len) == [illuminant |-> illuminant, m |-> Matrix(n, len)]
CmSet ==
    {<<>>}
    \cup UNION {{<<Entry("A", 1, len)>>, <<Entry("D65", 2, len)>>,
                 <<Entry("A", 1, len), Entry("D65", 2, len)>>,
                 <<Entry("D65", 2, len), Entry("A", 1, len), Entry("D50", 3, len)>>}
                : len \in {9, 12}}
CmFull == <<Entry("A", 1, 12), Entry("D65", 2, 12)>>
CmNoD65 == <<Entry("A", 1, 12)>>

ActiveArea == Rect(2, 0, RawW - 2, RawH)
CropInner == Rect(3, 1, RawW - 4, RawH - 2)
CropSet ==
    {None, Some(CropInner), Some(Rect(0, 0, RawW, RawH)), Some(ActiveArea),
     Some(Rect(0, 0, 0, 0)), Some(Rect(0, 1, RawW, RawH - 2))}

RawImage(sensor, aa, crop, wbc, cm) ==
    [cpp |-> sensor[1], photometric |-> sensor[2], cfa |-> sensor[3],
     width |-> RawW, height |-> RawH, scaled |-> FALSE, whitelevel |-> "decoder",
     active_area |-> aa, crop_area |-> crop, wb_coeffs |-> wbc, color_matrix |-> cm]

NoRaw == RawImage(<<0, "none", Bayer>>, None, None, <<>>, <<>>)
NoFile == [format |-> "none", raw |-> NoRaw]

(* remove_raw_artifacts_and_enhance is not running *)
DenoiseOff ==
    /\ buffer = <<>>
    /\ ycbcr_buffer = <<>>
    /\ rows = {}
    /\ out_chroma = <<>>
    /\ dpc = "off"

(* get_distortion_params is not being called *)
LensOff ==
    /\ calibration = <<>>
    /\ focal_length = <<>>
    /\ aperture = <<>>
    /\ distance = <<>>
    /\ params = <<>>
    /\ lpc = "off"

(* load_base_image_from_bytes has not returned *)
CommandOff ==
    /\ lens_db = [poisoned |-> FALSE, db |-> <<>>]
    /\ maker = ""
    /\ model = ""
    /\ reply = <<>>
InpaintOff ==
    /\ ai_pc = "off"
    /\ full_source_image = <<>>
    /\ sent = <<>>
    /\ response = <<>>
    /\ inpainted = <<>>
TiffOff == tiff = <<>>
LoaderOff == loaded = <<>> /\ decoded = <<>> /\ CommandOff /\ InpaintOff /\ TiffOff

(* the highlight stage is not being followed pixel by pixel *)
NumericOff ==
    /\ DenoiseOff
    /\ LensOff
    /\ LoaderOff
    /\ original_white_level = <<>>
    /\ original_black_level = <<>>
    /\ highlight_compression = <<>>
    /\ pixel = <<>>
    /\ sample = <<>>
    /\ locals = <<>>
    /\ hpc = "off"

(* a call of develop_intermediate: the developer and the image *)
Call(list, alg, raw) == [steps |-> list, alg |-> alg, raw |-> raw]

CallsBySteps ==
    {Call(l, a, RawImage(s, Some(ActiveArea), Some(CropInner), WbMixed, cm)) :
        l \in AllStepLists, a \in Algorithms, s \in Sensors, cm \in {CmFull, CmNoD65}}
CallsByCalibration ==
    {Call(l, "Quality", RawImage(s, Some(ActiveArea), Some(CropInner), w, cm)) :
        l \in ListsOver({"Rescale", "CropActiveArea", "CropDefault", "SRgb"},
                        {"Demosaic", "WhiteBalance", "Calibrate"}),
        s \in FewSensors, w \in WbSet, cm \in CmSet}
CallsByGeometry ==
    {Call(l, a, RawImage(s, aa, crop, WbMixed, CmFull)) :
        l \in ListsOver({"Rescale", "WhiteBalance", "Calibrate", "SRgb"},
                        {"Demosaic", "CropActiveArea", "CropDefault"}),
        a \in Algorithms, s \in Sensors, aa \in {None, Some(ActiveArea)}, crop \in CropSet}
DirectCalls == CallsBySteps \cup CallsByCalibration \cup CallsByGeometry

InitDirect ==
    \E c \in DirectCalls :
        /\ caller = "direct"
        /\ steps = c.steps
        /\ demosaic_algorithm = c.alg
        /\ rawimage = c.raw
        /\ intermediate = NoIntermediate
        /\ wb = <<>>
        /\ xyz2cam = <<>>
        /\ pc = "rescale"
        /\ err = ""
        /\ ran = <<>>
        /\ aa_used = {}
        /\ wb_kept = FALSE
        /\ file = NoFile
        /\ fast_demosaic = FALSE
        /\ cancel_token = None
        /\ tracker = 0
        /\ image = None
        /\ polls = <<>>
        /\ NumericOff

Init == InitDirect
Next == DevelopIntermediate
Spec == Init /\ [][Next]_vars

----------------------------------------------------------------------------
(* develop_internal (src-tauri/src/raw_processing.rs), with a cancel token  *)
(* whose counter other threads may advance at any time                      *)

MaxGeneration == 2

CancelError == "Load cancelled"
UnsupportedError == "Unsupported intermediate format for f32 conversion"
DecoderErrors == {"get_decoder failed", "raw_image failed", "raw_metadata failed"}

(* mutant of Cancelled: only a counter above the captured generation cancels *)
CancelledIfGreater(token, counter) == IsSome(token) /\ counter > Unwrap(token)

(* lines 36-43: the closure check_cancel *)
Cancelled(token, counter) == IsSome(token) /\ counter # Unwrap(token)

(* the call sites of check_cancel, with the position each guards *)
PollSites ==
    [poll_entry     |-> "get_decoder",    \* line 45
     poll_decoder   |-> "decode",         \* line 50
     poll_develop   |-> "rescale",        \* line 84
     poll_highlight |-> "highlight",      \* line 92
     poll_convert   |-> "convert"]        \* line 154

CheckCancel ==
    /\ pc \in DOMAIN PollSites
    /\ UNCHANGED numeric
    /\ polls' = Append(polls, pc)
    /\ IF Cancelled(cancel_token, tracker)
       THEN pc' = "err" /\ err' = CancelError
       ELSE pc' = PollSites[pc] /\ err' = err
    /\ UNCHANGED <<caller, steps, demosaic_algorithm, rawimage, intermediate, wb, xyz2cam,
                   ran, aa_used, wb_kept, file, fast_demosaic, cancel_token, tracker, image>>

(* lines 47-48 *)
GetDecoder ==
    /\ pc = "get_decoder"
    /\ UNCHANGED numeric
    /\ IF file.format = "unknown"
       THEN pc' = "err" /\ err' = "get_decoder failed"
       ELSE pc' = "poll_decoder" /\ err' = err
    /\ UNCHANGED <<caller, steps, demosaic_algorithm, rawimage, intermediate, wb, xyz2cam,
                   ran, aa_used, wb_kept, outside>>

(* mutant of DeveloperFor: Calibrate is removed from the steps as well *)
DeveloperForUncalibrated(fast) ==
    [steps |-> RetainNot(RetainNot(DefaultSteps, "SRgb"), "Calibrate"),
     demosaic_algorithm |-> IF fast THEN "Speed" ELSE "Quality"]

(* lines 78-82: RawDevelop::default(), the algorithm, steps.retain(!= SRgb) *)
DeveloperFor(fast) ==
    [steps |-> RetainNot(DefaultSteps, "SRgb"),
     demosaic_algorithm |-> IF fast THEN "Speed" ELSE "Quality"]

(* lines 51-82: decode, read the metadata, keep the original levels, force  *)
(* the white level of the working copy to u32::MAX, build the developer     *)
Decode ==
    /\ pc = "decode"
    /\ UNCHANGED numeric
    /\ UNCHANGED <<caller, intermediate, wb, xyz2cam, ran, aa_used, wb_kept, outside>>
    /\ IF file.format = "truncated"
       THEN /\ pc' = "err" /\ err' = "raw_image failed"
            /\ UNCHANGED <<rawimage, steps, demosaic_algorithm>>
       ELSE IF file.format = "bad_metadata"
       THEN /\ pc' = "err" /\ err' = "raw_metadata failed"
            /\ UNCHANGED <<rawimage, steps, demosaic_algorithm>>
       ELSE /\ pc' = "poll_develop" /\ err' = err
            /\ rawimage' = [file.raw EXCEPT !.whitelevel = "u32::MAX"]
            /\ steps' = DeveloperFor(fast_demosaic).steps
            /\ demosaic_algorithm' = DeveloperFor(fast_demosaic).demosaic_algorithm

(* lines 87-90: rescale_factor and safe_highlight_compression *)
Levels ==
    /\ pc = "levels"
    /\ UNCHANGED numeric
    /\ pc' = "poll_highlight"
    /\ UNCHANGED <<caller, steps, demosaic_algorithm, rawimage, intermediate, wb, xyz2cam,
                   err, ran, aa_used, wb_kept, outside>>

(* lines 94-147: what the stage does to each variant *)
HighlightOf(v) ==
    CASE v = "Monochrome" -> "rescale"
      [] v = "ThreeColor" -> "rescale, compress highlights"
      [] v = "FourColor"  -> "rescale"

(* lines 94-152 *)
Highlight ==
    /\ pc = "highlight"
    /\ UNCHANGED numeric
    /\ pc' = "poll_convert"
    /\ intermediate' = [intermediate EXCEPT !.highlight = HighlightOf(intermediate.variant)]
    /\ ran' = Append(ran, "Highlight")
    /\ UNCHANGED <<caller, steps, demosaic_algorithm, rawimage, wb, xyz2cam,
                   err, aa_used, wb_kept, outside>>

(* lines 156-178 *)
Convert ==
    /\ pc = "convert"
    /\ UNCHANGED numeric
    /\ IF intermediate.variant \in {"ThreeColor", "Monochrome"}
       THEN /\ pc' = "done" /\ err' = err
            /\ image' = Some([format |-> "ImageRgba32F", dim |-> intermediate.dim,
                              from |-> intermediate.variant])
       ELSE /\ pc' = "err" /\ err' = UnsupportedError
            /\ image' = image
    /\ UNCHANGED <<caller, steps, demosaic_algorithm, rawimage, intermediate, wb, xyz2cam,
                   ran, aa_used, wb_kept, file, fast_demosaic, cancel_token, tracker, polls>>

(* another thread advances the shared counter while the call is running *)
Cancel ==
    /\ caller = "internal"
    /\ UNCHANGED numeric
    /\ pc \notin {"done", "err", "panic"}
    /\ tracker < MaxGeneration
    /\ tracker' = tracker + 1
    /\ UNCHANGED <<caller, steps, demosaic_algorithm, rawimage, intermediate, wb, xyz2cam,
                   pc, err, ran, aa_used, wb_kept, file, fast_demosaic, cancel_token, image, polls>>

DevelopInternal == CheckCancel \/ GetDecoder \/ Decode \/ Levels \/ Highlight \/ Convert

Files ==
    {[format |-> f, raw |-> NoRaw] : f \in {"unknown", "truncated", "bad_metadata"}}
    \cup {[format |-> "raw", raw |-> RawImage(s, Some(ActiveArea), crop, WbMixed, cm)] :
            s \in Sensors, crop \in {None, Some(CropInner)}, cm \in {CmFull, CmNoD65}}

InitInternal ==
    /\ caller = "internal"
    /\ file \in Files
    /\ fast_demosaic \in BOOLEAN
    /\ cancel_token \in {None} \cup {Some(g) : g \in 0..1}
    /\ tracker \in 0..1
    /\ steps = <<>>
    /\ demosaic_algorithm = "Quality"
    /\ rawimage = NoRaw
    /\ intermediate = NoIntermediate
    /\ wb = <<>>
    /\ xyz2cam = <<>>
    /\ pc = "poll_entry"
    /\ err = ""
    /\ ran = <<>>
    /\ aa_used = {}
    /\ wb_kept = FALSE
    /\ image = None
    /\ polls = <<>>
    /\ NumericOff

NextInternal == DevelopInternal \/ DevelopIntermediate \/ Cancel
SpecInternal == InitInternal /\ [][NextInternal]_vars

----------------------------------------------------------------------------
(* Properties of develop_intermediate *)

Range(q) == {q[i] : i \in 1..Len(q)}
IsPrefix(a, b) == Len(a) <= Len(b) /\ \A i \in 1..Len(a) : a[i] = b[i]

(* the steps that are blocks of develop_intermediate; CropActiveArea and    *)
(* WhiteBalance only appear as conditions inside other blocks               *)
StageSteps == {"Rescale", "Demosaic", "Calibrate", "CropDefault", "SRgb"}
StagesOf(list) == SelectSeq(ProcessingStep, LAMBDA s : s \in StageSteps /\ s \in Range(list))

TookEffect(s) ==
    CASE s = "CropActiveArea" -> aa_used # {}
      [] s = "WhiteBalance"   -> wb_kept
      [] OTHER                -> s \in Range(ran)

(* C1, as stated: when develop_intermediate returns Ok, every step of the   *)
(* list has taken effect and no other step has, the stages having run in    *)
(* the canonical order                                                      *)
C1_AsStated ==
    pc = "ok" =>
        /\ \A s \in StepNames : s \in Range(steps) <=> TookEffect(s)
        /\ ran = StagesOf(steps)

(* C1, amended: the five stage blocks Rescale, Demosaic, Calibrate,         *)
(* CropDefault, SRgb run exactly when listed, in that order, whatever the   *)
(* order and repetition of the list; WhiteBalance acts only inside          *)
(* Calibrate and CropActiveArea only inside Demosaic (Monochrome CFA data)  *)
(* and CropDefault (with Demosaic listed, a crop and an active area)        *)
C1_StagesInCanonicalOrder ==
    /\ IsPrefix(ran, StagesOf(steps))
    /\ pc = "ok" =>
        /\ ran = StagesOf(steps)
        /\ wb_kept <=> {"WhiteBalance", "Calibrate"} \subseteq Range(steps)
        /\ "Demosaic" \in aa_used <=>
              /\ {"CropActiveArea", "Demosaic"} \subseteq Range(steps)
              /\ rawimage.photometric = "Cfa" /\ rawimage.cpp = 1
        /\ "CropDefault" \in aa_used <=>
              /\ {"CropActiveArea", "Demosaic", "CropDefault"} \subseteq Range(steps)
              /\ rawimage.crop_area # None /\ rawimage.active_area # None
        /\ intermediate.scaled <=> "Rescale" \in Range(steps)
        /\ intermediate.gamma # "none" <=> "SRgb" \in Range(steps)

(* C1 witness: a reversed list with a repeated entry holding all seven      *)
(* steps has been developed, all five stages ran                            *)
C1_Witness ==
    /\ pc = "ok"
    /\ steps = ShuffledList(StepNames)
    /\ ran = <<"Rescale", "Demosaic", "Calibrate", "CropDefault", "SRgb">>
    /\ intermediate.demosaic = "PPGDemosaic"

(* C2: the Demosaic block on a Monochrome intermediate of a CFA image picks *)
(* X-Trans for an RGB 6x6 tile, Bayer for any other RGB tile, the 4-channel *)
(* family for a non-RGB tile of exactly 4 colours, and otherwise passes the *)
(* Monochrome intermediate through unchanged without failing; Quality and   *)
(* Speed select the variant inside the family                               *)
C2_DemosaicSelection ==
    [][(/\ pc = "demosaic"
        /\ "Demosaic" \in Range(steps)
        /\ rawimage.photometric = "Cfa"
        /\ intermediate.variant = "Monochrome")
       =>
       LET c == rawimage.cfa
           q == demosaic_algorithm = "Quality"
           out == intermediate'
       IN  /\ pc' = "calibrate" /\ err' = ""
           /\ (c.is_rgb /\ c.width = 6 /\ c.height = 6) =>
                 /\ out.variant = "ThreeColor"
                 /\ out.demosaic = IF q THEN "XTransDemosaic" ELSE "XTransSuperpixelDemosaic"
           /\ (c.is_rgb /\ ~(c.width = 6 /\ c.height = 6)) =>
                 /\ out.variant = "ThreeColor"
                 /\ out.demosaic = IF q THEN "PPGDemosaic" ELSE "SuperpixelQuarterRes3Channel"
           /\ (~c.is_rgb /\ c.unique_colors = 4) =>
                 /\ out.variant = "FourColor"
                 /\ out.demosaic = IF q THEN "Bilinear4Channel" ELSE "Superpixel4Channel"
           /\ (~c.is_rgb /\ c.unique_colors # 4) => out = intermediate
      ]_vars

(* C2 witness: an unrecognised pattern went through Demosaic unchanged and  *)
(* the development returned Ok                                              *)
C2_Witness ==
    /\ pc = "ok"
    /\ "Demosaic" \in Range(ran)
    /\ rawimage.photometric = "Cfa" /\ rawimage.cpp = 1
    /\ ~rawimage.cfa.is_rgb /\ rawimage.cfa.unique_colors = 5
    /\ intermediate.variant = "Monochrome" /\ intermediate.demosaic = "none"

(* C3: a FourColor intermediate changes variant only in the Calibrate       *)
(* block, where it becomes ThreeColor; Calibrate leaves a Monochrome        *)
(* intermediate unchanged; once Calibrate has run without failing the       *)
(* intermediate is never FourColor                                          *)
C3_FourToThreeOnlyInCalibrate ==
    /\ []((pc # "err" /\ "Calibrate" \in Range(ran)) => intermediate.variant # "FourColor")
    /\ [][/\ (intermediate.variant = "FourColor" /\ intermediate'.variant # "FourColor")
                => (pc = "calibrate" /\ intermediate'.variant = "ThreeColor")
          /\ (pc = "calibrate" /\ intermediate.variant = "Monochrome")
                => intermediate' = intermediate
         ]_vars

(* C3 witness: a FourColor intermediate was calibrated to ThreeColor and returned *)
C3_Witness ==
    /\ pc = "ok"
    /\ intermediate.map = "map_4ch_to_rgb"
    /\ intermediate.variant = "ThreeColor"
    /\ intermediate.demosaic = "Superpixel4Channel"

HasD65(raw) == \E i \in 1..Len(raw.color_matrix) : raw.color_matrix[i].illuminant = "D65"
D65Matrix(raw) ==
    (CHOOSE e \in Range(raw.color_matrix) : e.illuminant = "D65").m

(* C4: with Calibrate listed and no D65 matrix the call never returns Ok:   *)
(* the Calibrate block fails with the D65 error, nothing runs after an      *)
(* error; with a D65 entry, xyz2cam holds that entry's coefficients, row by *)
(* row, and zeros                                                           *)
C4_MissingD65Fails ==
    /\ []((("Calibrate" \in Range(steps)) /\ ~HasD65(rawimage)) => pc # "ok")
    /\ [][/\ pc # "err"
          /\ (pc = "calibrate" /\ "Calibrate" \in Range(steps)) =>
                IF HasD65(rawimage)
                THEN /\ pc' = "crop"
                     /\ \A i \in 1..4, j \in 1..3 :
                           xyz2cam'[i][j] =
                              IF 3 * i <= Len(D65Matrix(rawimage))
                              THEN D65Matrix(rawimage)[3 * (i - 1) + j] ELSE 0
                     /\ intermediate'.variant # "Monochrome" => intermediate'.xyz2cam = xyz2cam'
                ELSE /\ pc' = "err"
                     /\ err' = "Calibration failed: Color matrix for D65 illuminant not found"
                     /\ intermediate' = intermediate
         ]_vars

(* C4 witness: Calibrate failed on an image that has a matrix, but none for D65 *)
C4_Witness ==
    /\ pc = "err"
    /\ err = D65Error
    /\ rawimage.color_matrix # <<>>
    /\ ran[Len(ran)] = "Calibrate"

(* C5: the wb vector of the Calibrate block is all 1.0 when WhiteBalance is *)
(* not listed, otherwise the decoder's coefficients with each NaN replaced  *)
(* by 1.0; the vector handed to the colour transform holds no NaN           *)
C5_WhiteBalanceVector ==
    /\ [](\A i \in 1..Len(intermediate.wb) : intermediate.wb[i] # "NaN")
    /\ [][(pc = "calibrate" /\ "Calibrate" \in Range(steps)) =>
            /\ \A i \in 1..4 :
                  wb'[i] = IF "WhiteBalance" \notin Range(steps) THEN "1.0"
                           ELSE IF rawimage.wb_coeffs[i] = "NaN" THEN "1.0"
                           ELSE rawimage.wb_coeffs[i]
            /\ intermediate'.map # "none" => intermediate'.wb = wb'
         ]_vars

(* C5 witness: a colour transform ran with WhiteBalance listed on decoder   *)
(* coefficients that hold a NaN                                             *)
C5_Witness ==
    /\ pc = "ok"
    /\ "WhiteBalance" \in Range(steps)
    /\ intermediate.map = "map_3ch_to_rgb"
    /\ rawimage.wb_coeffs[2] = "NaN" /\ rawimage.wb_coeffs[3] # "NaN"
    /\ intermediate.wb = <<"2.1", "1.0", "1.6", "0.9">>

----------------------------------------------------------------------------
(* Properties of develop_internal *)

TokenStale == cancel_token # None /\ tracker # cancel_token[1]

InsideDevelopIntermediate ==
    pc \in {"rescale", "construct", "demosaic", "calibrate", "crop", "srgb"}

(* C6, as stated: the counter is polled after Demosaic, after Calibrate and *)
(* before the crop, so a development whose counter has moved leaves each of *)
(* these boundaries only by aborting with the cancellation error            *)
C6_AsStated ==
    [][(pc \in {"calibrate", "crop"} /\ pc' # pc /\ TokenStale)
          => (pc' = "err" /\ err' = CancelError)]_vars

(* C6, amended: check_cancel is called at entry, after get_decoder, before  *)
(* develop_intermediate, after develop_intermediate (Demosaic, Calibrate    *)
(* and the default crop have all run by then) and before the final          *)
(* conversion, and nowhere inside develop_intermediate; a poll that finds   *)
(* the counter different from the captured generation ends the call there   *)
(* with "Load cancelled": no stage runs afterwards, no image is returned,   *)
(* and no other failure carries that error                                  *)
C6_PollsAndAbort ==
    /\ [](IsPrefix(polls, <<"poll_entry", "poll_decoder", "poll_develop",
                            "poll_highlight", "poll_convert">>))
    /\ []((pc = "poll_highlight" /\ rawimage.crop_area # None)
             => ran = <<"Rescale", "Demosaic", "Calibrate", "CropDefault">>)
    /\ [](err = CancelError => (pc = "err" /\ image = None))
    /\ [][/\ pc \in {"err", "done", "panic"} => pc' = pc
          /\ InsideDevelopIntermediate => polls' = polls
          /\ (polls' # polls /\ TokenStale) =>
                (pc' = "err" /\ err' = CancelError /\ ran' = ran /\ image' = None)
          /\ (polls' # polls /\ ~TokenStale) => (pc' \notin {"err", pc} /\ err' = "")
          /\ (err' = CancelError /\ err # CancelError) => (polls' # polls /\ TokenStale)
         ]_vars

(* C6 witness: the counter moved while develop_intermediate was running;    *)
(* the crop still ran and the poll after develop_intermediate aborted       *)
C6_Witness ==
    /\ pc = "err" /\ err = CancelError
    /\ polls = <<"poll_entry", "poll_decoder", "poll_develop", "poll_highlight">>
    /\ ran = <<"Rescale", "Demosaic", "Calibrate", "CropDefault">>
    /\ intermediate.crop # None
    /\ image = None

----------------------------------------------------------------------------
(* IEEE-754 binary32 arithmetic (Rust f32), round to nearest, ties to even. *)
(* A value is [s, m, e] and stands for (-1)^s * m * 2^e, with m = 0 (zero)  *)
(* or 2^23 <= m < 2^24.  Subnormals, infinities and NaN are not             *)
(* represented: the inputs below keep every result a normal number.         *)

Two(n) == 2 ^ n
F(s, m, e) == [s |-> s, m |-> m, e |-> e]
FZero == F(0, 0, 0)

(* the number of bits of n *)
RECURSIVE BitLen(_)
BitLen(n) ==
    IF n >= 65536 THEN 16 + BitLen(n \div 65536)
    ELSE IF n >= 256 THEN 8 + BitLen(n \div 256)
    ELSE IF n >= 16 THEN 4 + BitLen(n \div 16)
    ELSE IF n >= 2 THEN 1 + BitLen(n \div 2)
    ELSE n

(* M / 2^k rounded to the nearest integer, ties to even; st = 1 says that   *)
(* bits below M were lost                                                   *)
RoundShift(M, k, st) ==
    IF k = 0 THEN M
    ELSE LET q == M \div Two(k)
             rem == M % Two(k)
             half == Two(k - 1)
         IN  IF rem > half \/ (rem = half /\ (st = 1 \/ q % 2 = 1)) THEN q + 1 ELSE q

(* the binary32 nearest to (-1)^s * M * 2^E, 0 <= M < 2^30 *)
Pack(s, M, E, st) ==
    IF M = 0 THEN FZero
    ELSE LET n == BitLen(M)
         IN  IF n <= 24 THEN F(s, M * Two(24 - n), E - (24 - n))
             ELSE LET q == RoundShift(M, n - 24, st)
                  IN  IF q = Two(24) THEN F(s, Two(23), E + (n - 24) + 1)
                      ELSE F(s, q, E + (n - 24))

(* n as f32, for 0 <= n < 2^30 *)
FromInt(n) == Pack(0, n, 0, 0)

FNeg(a) == IF a.m = 0 THEN a ELSE F(1 - a.s, a.m, a.e)
FAbs(a) == F(0, a.m, a.e)

(* |a| < |b| *)
MagLt(a, b) ==
    IF a.m = 0 THEN b.m # 0
    ELSE IF b.m = 0 THEN FALSE
    ELSE a.e < b.e \/ (a.e = b.e /\ a.m < b.m)

FLt(a, b) ==
    IF a.s = 0 /\ b.s = 0 THEN MagLt(a, b)
    ELSE IF a.s = 1 /\ b.s = 1 THEN MagLt(b, a)
    ELSE a.s = 1 /\ (a.m # 0 \/ b.m # 0)
FGt(a, b) == FLt(b, a)
FLe(a, b) == ~FLt(b, a)

(* f32::max, f32::min *)
FMax(a, b) == IF FLt(a, b) THEN b ELSE a
FMin(a, b) == IF FLt(b, a) THEN b ELSE a

(* |x| + |y| and |x| - |y| for |x| >= |y|, with three guard bits *)
Aligned(x, y) ==
    LET d == x.e - y.e
        Y == y.m * 8
    IN  IF y.m = 0 THEN 0
        ELSE IF d >= 27 THEN 1
        ELSE (Y \div Two(d)) + (IF Y % Two(d) # 0 /\ (Y \div Two(d)) % 2 = 0 THEN 1 ELSE 0)
MagAdd(s, x, y) == Pack(s, x.m * 8 + Aligned(x, y), x.e - 3, 0)
MagSub(s, x, y) == Pack(s, x.m * 8 - Aligned(x, y), x.e - 3, 0)

FAdd(a, b) ==
    IF a.m = 0 THEN b
    ELSE IF b.m = 0 THEN a
    ELSE IF a.s = b.s
         THEN (IF MagLt(a, b) THEN MagAdd(a.s, b, a) ELSE MagAdd(a.s, a, b))
         ELSE (IF MagLt(a, b) THEN MagSub(b.s, b, a) ELSE MagSub(a.s, a, b))
FSub(a, b) == FAdd(a, FNeg(b))

(* the 48-bit product of two mantissas, by 12-bit halves *)
FMul(a, b) ==
    IF a.m = 0 \/ b.m = 0 THEN FZero
    ELSE LET a1 == a.m \div 4096
             a0 == a.m % 4096
             b1 == b.m \div 4096
             b0 == b.m % 4096
             mid == a1 * b0 + a0 * b1
             lo_part == (mid % 4096) * 4096 + a0 * b0
             lo == lo_part % Two(24)
             hi == a1 * b1 + (mid \div 4096) + (lo_part \div Two(24))
         IN  Pack((a.s + b.s) % 2, hi * 64 + (lo \div Two(18)), a.e + b.e + 18,
                  IF lo % Two(18) # 0 THEN 1 ELSE 0)

(* long division, seven bits a step: after n steps q = floor(a * 2^(7n) / b) *)
(* and r is the remainder                                                   *)
RECURSIVE DivSteps(_, _, _, _)
DivSteps(q, r, b, n) ==
    IF n = 0 THEN <<q, r>>
    ELSE DivSteps(q * 128 + ((r * 128) \div b), (r * 128) % b, b, n - 1)

FDiv(a, b) ==
    IF a.m = 0 THEN FZero
    ELSE LET qr == DivSteps(a.m \div b.m, a.m % b.m, b.m, 4)
         IN  Pack((a.s + b.s) % 2, qr[1], a.e - b.e - 28, IF qr[2] # 0 THEN 1 ELSE 0)

(* a decimal literal num / den of the source, num, den < 2^24 *)
Dec(num, den) == FDiv(FromInt(num), FromInt(den))
FOne == FromInt(1)

(* square root, two bits of the radicand a step: the radicand is m * 2^(2z), *)
(* m taken in k pairs of bits, then z pairs of zeros                        *)
RECURSIVE SqrtSteps(_, _, _, _, _)
SqrtSteps(root, rem, m, k, z) ==
    IF k = 0 /\ z = 0 THEN <<root, rem>>
    ELSE LET pair == IF k > 0 THEN (m \div (4 ^ (k - 1))) % 4 ELSE 0
             r == rem * 4 + pair
             cand == 4 * root + 1
         IN  IF r >= cand
             THEN SqrtSteps(2 * root + 1, r - cand, m, IF k > 0 THEN k - 1 ELSE 0,
                            IF k > 0 THEN z ELSE z - 1)
             ELSE SqrtSteps(2 * root, r, m, IF k > 0 THEN k - 1 ELSE 0,
                            IF k > 0 THEN z ELSE z - 1)

(* f32::sqrt of a >= 0 *)
FSqrt(a) ==
    IF a.m = 0 THEN FZero
    ELSE LET odd == a.e % 2 = 1
             m == IF odd THEN 2 * a.m ELSE a.m
             e == IF odd THEN a.e - 1 ELSE a.e
             rr == SqrtSteps(0, 0, m, 13, 13)
         IN  Pack(0, rr[1], (e \div 2) - 13, IF rr[2] # 0 THEN 1 ELSE 0)

----------------------------------------------------------------------------
(* develop_internal, lines 87-138: the highlight stage on one ThreeColor    *)
(* pixel, in f32                                                            *)

(* u32::MAX as f32: 4294967295 rounds to 2^32 *)
headroom_white_level == F(0, Two(23), 9)

(* mutant of RescaleFactor: the denominator is floored at 2^-10 *)
RescaleFactorLowFloor(white, black) ==
    LET denominator == FMax(FSub(white, black), F(0, Two(23), 0 - 33))
    IN  FDiv(FSub(headroom_white_level, black), denominator)

(* lines 87-88 *)
RescaleFactor(white, black) ==
    LET denominator == FMax(FSub(white, black), FOne)
    IN  FDiv(FSub(headroom_white_level, black), denominator)

(* mutant of SafeHighlightCompression: the floor is 1.25 *)
SafeHighlightCompressionHighFloor(c) == FMax(c, Dec(5, 4))

(* line 90 *)
SafeHighlightCompression(c) == FMax(c, Dec(101, 100))

(* mutant of Rescaled: the sample is not floored at 0.0 *)
RescaledUnclamped(x, rescale_factor) == FMul(x, rescale_factor)

(* lines 103-105: (p[i] * rescale_factor).max(0.0) *)
Rescaled(x, rescale_factor) == FMax(FMul(x, rescale_factor), FZero)

(* lines 111-114 *)
CompressionFactor(max_c, safe) ==
    FMin(FMax(FSub(FOne, FDiv(FSub(max_c, FOne), FSub(safe, FOne))), FZero), FOne)

(* mutant of Compressed: the spread is taken below the minimum *)
CompressedBelow(x, min_c, compression_factor) ==
    FSub(min_c, FMul(FSub(x, min_c), compression_factor))

(* lines 115-117 *)
Compressed(x, min_c, compression_factor) ==
    FAdd(min_c, FMul(FSub(x, min_c), compression_factor))

(* mutant of RescaleToMax: the compressed triple is returned as it is *)
RescaleSkipped(c, max_c) == c

(* lines 118-129: c is (compressed_r, compressed_g, compressed_b) *)
RescaleToMax(c, max_c) ==
    LET compressed_max == FMax(FMax(c[1], c[2]), c[3])
    IN  IF FGt(compressed_max, Dec(1, 1000000))
        THEN LET rescale == FDiv(max_c, compressed_max)
             IN  <<FMul(c[1], rescale), FMul(c[2], rescale), FMul(c[3], rescale)>>
        ELSE <<max_c, max_c, max_c>>

(* lines 102-137: the closure applied to p; the locals and the final triple *)
ThreeColorPixel(p, rescale_factor, safe) ==
    LET r == Rescaled(p[1], rescale_factor)
        g == Rescaled(p[2], rescale_factor)
        b == Rescaled(p[3], rescale_factor)
        max_c == FMax(FMax(r, g), b)
        min_c == FMin(FMin(r, g), b)
        compression_factor == CompressionFactor(max_c, safe)
    IN  [r |-> r, g |-> g, b |-> b, max_c |-> max_c,
         compressing |-> FGt(max_c, FOne),
         min_c |-> min_c,
         compression_factor |-> compression_factor,
         final |-> IF FGt(max_c, FOne)
                   THEN RescaleToMax(<<Compressed(r, min_c, compression_factor),
                                       Compressed(g, min_c, compression_factor),
                                       Compressed(b, min_c, compression_factor)>>, max_c)
                   ELSE <<r, g, b>>]

(* lines 87-90 *)
HighlightLevels ==
    /\ hpc = "levels"
    /\ hpc' = "pixel"
    /\ locals' = [rescale_factor |-> RescaleFactor(original_white_level, original_black_level),
                  safe_highlight_compression |-> SafeHighlightCompression(highlight_compression)]
    /\ UNCHANGED <<original_white_level, original_black_level, highlight_compression,
                   pixel, sample, denoise, lens, loader>>
    /\ UNCHANGED <<caller, steps, demosaic_algorithm, rawimage, intermediate, wb, xyz2cam,
                   pc, err, ran, aa_used, wb_kept, outside>>

(* lines 102-137: one element of pixels.data, rewritten in place *)
HighlightPixel ==
    /\ hpc = "pixel"
    /\ hpc' = "visited"
    /\ LET v == ThreeColorPixel(pixel, locals.rescale_factor, locals.safe_highlight_compression)
       IN  /\ pixel' = v.final
           /\ locals' = [rescale_factor |-> locals.rescale_factor,
                         safe_highlight_compression |-> locals.safe_highlight_compression,
                         r |-> v.r, g |-> v.g, b |-> v.b, max_c |-> v.max_c,
                         min_c |-> v.min_c, compressing |-> v.compressing,
                         compression_factor |-> v.compression_factor]
    /\ sample' = pixel
    /\ UNCHANGED <<original_white_level, original_black_level, highlight_compression,
                   denoise, lens, loader>>
    /\ UNCHANGED <<caller, steps, demosaic_algorithm, rawimage, intermediate, wb, xyz2cam,
                   pc, err, ran, aa_used, wb_kept, outside>>

(* Inputs of the highlight stage *)

(* (whitelevel.0[0], blacklevel.levels[0]) as f32: 14-bit without and with *)
(* a pedestal, and two degenerate pairs (white equal to black, white below  *)
(* black) whose difference is floored at 1.0                                *)
LevelPairs == {<<FromInt(16383), FZero>>, <<FromInt(16383), FromInt(512)>>,
               <<FromInt(4095), FromInt(4095)>>, <<FromInt(512), FromInt(1024)>>}
(* compression points: below the 1.01 floor, and three above it *)
CompressionPoints == {FOne, Dec(3, 2), Dec(5, 2), FromInt(4)}
(* samples of the developed intermediate: n / 2^32, and one negative; with  *)
(* the degenerate pair the rescaled value is n itself                       *)
SampleCounts == {0, 1, 3, 8000, 16383, 20000, 45000}
Samples ==
    {FDiv(FromInt(n), headroom_white_level) : n \in SampleCounts}
    \cup {FNeg(FDiv(FromInt(8000), headroom_white_level))}

(* develop_internal has returned from develop_intermediate *)
PipelineAtHighlight ==
    /\ caller = "internal"
    /\ steps = DeveloperFor(FALSE).steps
    /\ demosaic_algorithm = "Quality"
    /\ rawimage = NoRaw
    /\ intermediate = [NoIntermediate EXCEPT !.variant = "ThreeColor"]
    /\ wb = <<>>
    /\ xyz2cam = <<>>
    /\ pc = "highlight"
    /\ err = ""
    /\ ran = <<>>
    /\ aa_used = {}
    /\ wb_kept = FALSE
    /\ file = NoFile
    /\ fast_demosaic = FALSE
    /\ cancel_token = None
    /\ tracker = 0
    /\ image = None
    /\ polls = <<>>

InitHighlight ==
    /\ PipelineAtHighlight
    /\ DenoiseOff
    /\ LensOff
    /\ LoaderOff
    /\ \E l \in LevelPairs : original_white_level = l[1] /\ original_black_level = l[2]
    /\ highlight_compression \in CompressionPoints
    /\ pixel \in {<<x, y, z>> : x \in Samples, y \in Samples, z \in Samples}
    /\ sample = <<>>
    /\ locals = <<>>
    /\ hpc = "levels"

NextHighlight == HighlightLevels \/ HighlightPixel
SpecHighlight == InitHighlight /\ [][NextHighlight]_vars

----------------------------------------------------------------------------
(* Properties of the highlight stage *)

Max3(t) == FMax(FMax(t[1], t[2]), t[3])
Min3(t) == FMin(FMin(t[1], t[2]), t[3])

(* the rescaled sample as lines 103-105 compute it, written out *)
RescaledSample ==
    [i \in 1..3 |->
        LET x == FMul(sample[i], RescaleFactor(original_white_level, original_black_level))
        IN  IF x.s = 1 THEN FZero ELSE x]

(* the closure has visited the pixel and found its maximum above 1.0 *)
Compressing == hpc = "visited" /\ FLt(FOne, Max3(RescaledSample))

(* 2^-22 *)
Tolerance == F(0, Two(23), 0 - 45)

C8_NoOpBelowWhite ==
    (hpc = "visited" /\ ~FLt(FOne, Max3(RescaledSample))) => pixel = RescaledSample

(* a visited pixel with maximum exactly 1.0 and a channel that is not 0     *)
C8_Witness ==
    /\ hpc = "visited"
    /\ Max3(RescaledSample) = FOne
    /\ Min3(RescaledSample) # FZero
    /\ pixel = RescaledSample

(* C9 as stated: for a compressed pixel with g # min, (r-min)/(g-min) on    *)
(* the output is defined and has the sign it has on the input               *)
C9_AsStated ==
    (Compressing /\ RescaledSample[2] # Min3(RescaledSample)) =>
        /\ pixel[2] # Min3(pixel)
        /\ FLt(Min3(RescaledSample), RescaledSample[1]) <=> FLt(Min3(pixel), pixel[1])

(* C9: compression never reverses the order of two channels of a pixel, so  *)
(* r-min and g-min never change sign; with a compression factor of 0 the    *)
(* three channels written are equal and the ratio is 0/0                    *)
C9_OrderNeverReversed ==
    Compressing =>
        /\ \A i, j \in 1..3 :
              FLe(RescaledSample[i], RescaledSample[j]) => FLe(pixel[i], pixel[j])
        /\ locals.compression_factor = FZero => (pixel[1] = pixel[2] /\ pixel[2] = pixel[3])

(* a compressed pixel with r > g > min on input and on output *)
C9_Witness ==
    /\ Compressing
    /\ FLt(RescaledSample[2], RescaledSample[1])
    /\ FLt(Min3(RescaledSample), RescaledSample[2])
    /\ FLt(pixel[2], pixel[1])
    /\ FLt(Min3(pixel), pixel[2])

----------------------------------------------------------------------------
(* remove_raw_artifacts_and_enhance, pwa/wasm/src/core/image_processing.rs  *)
(* A w x h buffer is a sequence of w * h pixels, row after row; pixel       *)
(* (x, y) is element y * w + x + 1.                                         *)

(* fn rgb_to_yc_only *)
rgb_to_yc_only(r, g, b) ==
    <<FAdd(FAdd(FMul(Dec(299, 1000), r), FMul(Dec(587, 1000), g)), FMul(Dec(114, 1000), b)),
      FAdd(FSub(FMul(FNeg(Dec(168736, 1000000)), r), FMul(Dec(331264, 1000000), g)),
           FMul(Dec(1, 2), b)),
      FSub(FSub(FMul(Dec(1, 2), r), FMul(Dec(418688, 1000000), g)),
           FMul(Dec(81312, 1000000), b))>>

(* mutant of yc_to_rgb: the blue-difference chroma is added to every channel *)
yc_to_rgb_shifted(y, cb, cr) ==
    <<FAdd(FAdd(y, cb), FMul(Dec(1402, 1000), cr)),
      FSub(FSub(FAdd(y, cb), FMul(Dec(344136, 1000000), cb)), FMul(Dec(714136, 1000000), cr)),
      FAdd(FAdd(y, cb), FMul(Dec(1772, 1000), cb))>>

(* fn yc_to_rgb *)
yc_to_rgb(y, cb, cr) ==
    <<FAdd(y, FMul(Dec(1402, 1000), cr)),
      FSub(FSub(y, FMul(Dec(344136, 1000000), cb)), FMul(Dec(714136, 1000000), cr)),
      FAdd(y, FMul(Dec(1772, 1000), cb))>>

BASE_INV_SIGMA == FromInt(14)
OFFSETS == <<-5, -1, 3>>
OFFSET_SQUARES == <<FromInt(25), FromInt(1), FromInt(9)>>

(* 1e-12 as f32 *)
MagFloor == F(0, 9223372, -63)

(* lines 86-99: the (ki, kj) the two loops reach for pixel (x, y), in order *)
Taps == <<<<1, 1>>, <<1, 2>>, <<1, 3>>, <<2, 1>>, <<2, 2>>, <<2, 3>>,
          <<3, 1>>, <<3, 2>>, <<3, 3>>>>
InImage(t, x, y, w, h) ==
    /\ y + OFFSETS[t[1]] >= 0 /\ y + OFFSETS[t[1]] < h
    /\ x + OFFSETS[t[2]] >= 0 /\ x + OFFSETS[t[2]] < w
Neighbors(x, y, w, h) == SelectSeq(Taps, LAMBDA t : InImage(t, x, y, w, h))

(* lines 103-109 *)
Weight(cy, neighbor_y, ki, kj) ==
    LET y_diff == FAbs(FSub(cy, neighbor_y))
        val == FMul(y_diff, BASE_INV_SIGMA)
        ky_sq_div_50 == FMul(OFFSET_SQUARES[ki], Dec(2, 100))
        spatial_penalty == FAdd(FMul(OFFSET_SQUARES[kj], Dec(2, 100)), ky_sq_div_50)
    IN  FDiv(FOne, FAdd(FAdd(FOne, FMul(val, val)), spatial_penalty))

(* lines 82-115: the loops from tap ns[n] on, entered with the sums so far *)
RECURSIVE Sums(_, _, _, _, _, _, _, _, _)
Sums(ycc, ns, n, x, y, w, cb_sum, cr_sum, w_sum) ==
    IF n > Len(ns) THEN <<cb_sum, cr_sum, w_sum>>
    ELSE LET t == ns[n]
             nb == ycc[(y + OFFSETS[t[1]]) * w + (x + OFFSETS[t[2]]) + 1]
             weight == Weight(ycc[y * w + x + 1][1], nb[1], t[1], t[2])
         IN  Sums(ycc, ns, n + 1, x, y, w,
                  FAdd(cb_sum, FMul(nb[2], weight)),
                  FAdd(cr_sum, FMul(nb[3], weight)),
                  FAdd(w_sum, weight))

(* lines 122-130 *)
Clamp(filtered_cb, filtered_cr, ccb, ccr) ==
    LET orig_mag_sq == FAdd(FMul(ccb, ccb), FMul(ccr, ccr))
        filt_mag_sq == FAdd(FMul(filtered_cb, filtered_cb), FMul(filtered_cr, filtered_cr))
    IN  IF FGt(filt_mag_sq, orig_mag_sq) /\ FGt(orig_mag_sq, MagFloor)
        THEN LET scale == FSqrt(FDiv(orig_mag_sq, filt_mag_sq))
             IN  <<FMul(filtered_cb, scale), FMul(filtered_cr, scale)>>
        ELSE <<filtered_cb, filtered_cr>>

(* lines 76-133: (out_cb, out_cr) of pixel (x, y) *)
OutChroma(ycc, x, y, w, h) ==
    LET c == ycc[y * w + x + 1]
        ns == Neighbors(x, y, w, h)
        sums == Sums(ycc, ns, 1, x, y, w, FZero, FZero, FZero)
    IN  IF FGt(sums[3], Dec(1, 10000))
        THEN LET inv_w_sum == FDiv(FOne, sums[3])
             IN  Clamp(FMul(sums[1], inv_w_sum), FMul(sums[2], inv_w_sum), c[2], c[3])
        ELSE <<c[2], c[3]>>

(* lines 52-60: the first parallel pass fills ycbcr_buffer *)
ToYcbcr ==
    /\ dpc = "convert"
    /\ dpc' = "filter"
    /\ ycbcr_buffer' = [i \in 1..Len(buffer) |->
                            rgb_to_yc_only(buffer[i][1], buffer[i][2], buffer[i][3])]
    /\ UNCHANGED <<buffer, rows, out_chroma>>
    /\ UNCHANGED <<original_white_level, original_black_level, highlight_compression,
                   pixel, sample, locals, hpc, lens, loader>>
    /\ UNCHANGED <<caller, steps, demosaic_algorithm, rawimage, intermediate, wb, xyz2cam,
                   pc, err, ran, aa_used, wb_kept, outside>>

(* mutant of FilterRow: the row is filtered from the buffer as it is being   *)
(* written, not from ycbcr_buffer                                           *)
FilterRowInPlace ==
    /\ dpc = "filter"
    /\ \E y \in (0..(DnH - 1)) \ rows :
        /\ rows' = rows \cup {y}
        /\ dpc' = IF rows' = 0..(DnH - 1) THEN "done" ELSE "filter"
        /\ \E now \in {[i \in 1..Len(buffer) |->
                           rgb_to_yc_only(buffer[i][1], buffer[i][2], buffer[i][3])]} :
           \E oc \in {[x \in 0..(DnW - 1) |-> OutChroma(now, x, y, DnW, DnH)]} :
               /\ out_chroma' = [i \in 1..Len(buffer) |->
                                    IF (i - 1) \div DnW = y THEN oc[(i - 1) % DnW]
                                    ELSE out_chroma[i]]
               /\ buffer' = [i \in 1..Len(buffer) |->
                                IF (i - 1) \div DnW = y
                                THEN yc_to_rgb(now[i][1], oc[(i - 1) % DnW][1],
                                               oc[(i - 1) % DnW][2])
                                ELSE buffer[i]]
    /\ UNCHANGED ycbcr_buffer
    /\ UNCHANGED <<original_white_level, original_black_level, highlight_compression,
                   pixel, sample, locals, hpc, lens, loader>>
    /\ UNCHANGED <<caller, steps, demosaic_algorithm, rawimage, intermediate, wb, xyz2cam,
                   pc, err, ran, aa_used, wb_kept, outside>>

(* lines 66-141: the closure of the second pass on one row; rayon runs the  *)
(* rows in any order, each reads ycbcr_buffer and writes its own row only   *)
FilterRow ==
    /\ dpc = "filter"
    /\ \E y \in (0..(DnH - 1)) \ rows :
        /\ rows' = rows \cup {y}
        /\ dpc' = IF rows' = 0..(DnH - 1) THEN "done" ELSE "filter"
        /\ \E oc \in {[x \in 0..(DnW - 1) |-> OutChroma(ycbcr_buffer, x, y, DnW, DnH)]} :
               /\ out_chroma' = [i \in 1..Len(buffer) |->
                                    IF (i - 1) \div DnW = y THEN oc[(i - 1) % DnW]
                                    ELSE out_chroma[i]]
               /\ buffer' = [i \in 1..Len(buffer) |->
                                IF (i - 1) \div DnW = y
                                THEN yc_to_rgb(ycbcr_buffer[i][1], oc[(i - 1) % DnW][1],
                                               oc[(i - 1) % DnW][2])
                                ELSE buffer[i]]
    /\ UNCHANGED ycbcr_buffer
    /\ UNCHANGED <<original_white_level, original_black_level, highlight_compression,
                   pixel, sample, locals, hpc, lens, loader>>
    /\ UNCHANGED <<caller, steps, demosaic_algorithm, rawimage, intermediate, wb, xyz2cam,
                   pc, err, ran, aa_used, wb_kept, outside>>

(* Inputs of the chroma filter *)

Grey == <<Dec(1, 2), Dec(1, 2), Dec(1, 2)>>
Red == <<FOne, FZero, FZero>>
Tint == <<Dec(1, 2), Dec(1, 2), Dec(3, 4)>>
Palette == {Grey, Red, Tint}

(* a background, one pixel of the first row and one pixel anywhere set apart *)
Images ==
    {[i \in 1..(DnW * DnH) |-> IF i = a THEN ca ELSE IF i = b THEN cb ELSE bg] :
        a \in 1..DnW, b \in 1..(DnW * DnH), ca \in Palette, cb \in Palette, bg \in Palette}

InitDenoise ==
    /\ PipelineAtHighlight
    /\ LensOff
    /\ LoaderOff
    /\ original_white_level = <<>>
    /\ original_black_level = <<>>
    /\ highlight_compression = <<>>
    /\ pixel = <<>>
    /\ sample = <<>>
    /\ locals = <<>>
    /\ hpc = "off"
    /\ buffer \in Images
    /\ ycbcr_buffer = <<>>
    /\ rows = {}
    /\ out_chroma = [i \in 1..(DnW * DnH) |-> <<>>]
    /\ dpc = "convert"

NextDenoise == ToYcbcr \/ FilterRow
SpecDenoise == InitDenoise /\ [][NextDenoise]_vars

(* Properties of the chroma filter *)

MagSq(cb, cr) == FAdd(FMul(cb, cb), FMul(cr, cr))

(* C10 as stated: the chroma magnitude written for a pixel is at most the   *)
(* pixel's original chroma magnitude                                        *)
C10_AsStated ==
    \A i \in 1..(DnW * DnH) :
        ((i - 1) \div DnW) \in rows =>
            FLe(MagSq(out_chroma[i][1], out_chroma[i][2]),
                MagSq(ycbcr_buffer[i][2], ycbcr_buffer[i][3]))

(* 0.299 R + 0.587 G + 0.114 B of an RGB triple, in f32 *)
Luma(p) ==
    FAdd(FAdd(FMul(Dec(299, 1000), p[1]), FMul(Dec(587, 1000), p[2])),
         FMul(Dec(114, 1000), p[3]))

Written(i) == ((i - 1) \div DnW) \in rows

(* 2^-18 *)
LumaTolerance == F(0, Two(23), 0 - 41)

(* C11 as stated: the luma of every pixel written equals the luma of the    *)
(* input pixel, value for value                                             *)
C11_AsStated ==
    \A i \in 1..(DnW * DnH) : Written(i) => Luma(buffer[i]) = ycbcr_buffer[i][1]

(* C11: every pixel written is rebuilt from the input pixel's own luma and  *)
(* the chroma chosen for it, and its luma differs from the input pixel's by *)
(* at most 2^-18 (channel values in [0, 1])                                 *)
C11_LumaWithinRounding ==
    \A i \in 1..(DnW * DnH) :
        Written(i) =>
            FLe(FAbs(FSub(Luma(buffer[i]), ycbcr_buffer[i][1])), LumaTolerance)

(* a pixel whose chroma the filter changed and whose luma moved by rounding *)
C11_Witness ==
    \E i \in 1..(DnW * DnH) :
        /\ Written(i)
        /\ out_chroma[i] # <<ycbcr_buffer[i][2], ycbcr_buffer[i][3]>>
        /\ Luma(buffer[i]) # ycbcr_buffer[i][1]

----------------------------------------------------------------------------
(* f64 values of the lens resolver.  They are held exactly, as              *)
(* (-1)^s * m * 2^e with m odd (or zero): every f32 is such a value         *)
(* (`as f64`), and on the tables below no sum or product of the resolver    *)
(* has more than 31 significant bits, so no f64 operation rounds.           *)

RECURSIVE Odd(_, _, _)
Odd(s, m, e) ==
    IF m = 0 THEN FZero
    ELSE IF m % 65536 = 0 THEN Odd(s, m \div 65536, e + 16)
    ELSE IF m % 16 = 0 THEN Odd(s, m \div 16, e + 4)
    ELSE IF m % 2 = 0 THEN Odd(s, m \div 2, e + 1)
    ELSE F(s, m, e)

(* x as f64 *)
AsF64(x) == Odd(x.s, x.m, x.e)

(* the f64 sum: both terms brought to the smaller exponent *)
DAdd(a, b) ==
    IF a.m = 0 THEN b
    ELSE IF b.m = 0 THEN a
    ELSE LET e == IF a.e < b.e THEN a.e ELSE b.e
             A == (IF a.s = 1 THEN 0 - a.m ELSE a.m) * Two(a.e - e)
             B == (IF b.s = 1 THEN 0 - b.m ELSE b.m) * Two(b.e - e)
         IN  IF A + B < 0 THEN Odd(1, 0 - (A + B), e) ELSE Odd(0, A + B, e)
DSub(a, b) == DAdd(a, FNeg(b))
DMul(a, b) == Odd((a.s + b.s) % 2, a.m * b.m, a.e + b.e)

DZero == FZero
DOne == AsF64(FOne)

----------------------------------------------------------------------------
(* Lens::get_distortion_params, src-tauri/src/lens_correction.rs            *)

(* sort_by(|a, b| a.focal.partial_cmp(&b.focal).unwrap()): stable; v[1..n]  *)
(* sorted by insertion                                                      *)
RECURSIVE InsertByFocal(_, _)
InsertByFocal(sorted, x) ==
    IF sorted = <<>> THEN <<x>>
    ELSE IF FLt(x.focal, sorted[Len(sorted)].focal)
         THEN Append(InsertByFocal(SubSeq(sorted, 1, Len(sorted) - 1), x), sorted[Len(sorted)])
         ELSE Append(sorted, x)
RECURSIVE SortByFocal(_)
SortByFocal(v) ==
    IF v = <<>> THEN <<>>
    ELSE InsertByFocal(SortByFocal(SubSeq(v, 1, Len(v) - 1)), v[Len(v)])

(* Option<f32>::unwrap_or(d) as f64 *)
CoefOr(o, d) == AsF64(UnwrapOr(o, d))

(* mutant of extract_dist_params: a ptlens entry is read as a polynomial one *)
extract_dist_params_poly(dist) ==
    IF dist.model \in {"poly3", "poly5", "ptlens"}
    THEN <<CoefOr(dist.k1, FZero), CoefOr(dist.k2, FZero), CoefOr(dist.k3, FZero), 0>>
    ELSE <<DZero, DZero, DZero, 0>>

(* fn extract_dist_params *)
extract_dist_params(dist) ==
    IF dist.model \in {"poly3", "poly5"}
    THEN <<CoefOr(dist.k1, FZero), CoefOr(dist.k2, FZero), CoefOr(dist.k3, FZero), 0>>
    ELSE IF dist.model = "ptlens"
    THEN <<CoefOr(dist.a, FZero), CoefOr(dist.b, FZero), CoefOr(dist.c, FZero), 1>>
    ELSE <<DZero, DZero, DZero, 0>>

(* fn extract_tca_params *)
extract_tca_params(tca) == <<CoefOr(tca.vr, FOne), CoefOr(tca.vb, FOne)>>

(* fn extract_vig_params *)
extract_vig_params(vig) ==
    <<CoefOr(vig.k1, FZero), CoefOr(vig.k2, FZero), CoefOr(vig.k3, FZero)>>

(* 1e-5 and 0.01 as f32 *)
FocalEps == Dec(1, 100000)
GroupEps == Dec(1, 100)

(* (d.focal - focal_length).abs() < 1e-5 *)
FocalMatches(d, fl) == FLt(FAbs(FSub(d.focal, fl)), FocalEps)

(* iter().find(..): the index of the first entry that matches, 0 when none  *)
FindExact(v, fl) ==
    IF \E i \in 1..Len(v) : FocalMatches(v[i], fl)
    THEN CHOOSE i \in 1..Len(v) :
            /\ FocalMatches(v[i], fl)
            /\ \A j \in 1..(i - 1) : ~FocalMatches(v[j], fl)
    ELSE 0

(* the first i with v[i].focal <= focal_length <= v[i+1].focal, 0 when none *)
FindBracket(v, fl) ==
    IF \E i \in 1..(Len(v) - 1) : FLe(v[i].focal, fl) /\ FLe(fl, v[i + 1].focal)
    THEN CHOOSE i \in 1..(Len(v) - 1) :
            /\ FLe(v[i].focal, fl) /\ FLe(fl, v[i + 1].focal)
            /\ \A j \in 1..(i - 1) :
                  ~(FLe(v[j].focal, fl) /\ FLe(fl, v[j + 1].focal))
    ELSE 0

(* mutant of Lerp: the fraction is not applied *)
LerpWhole(p1, p2, t) == DAdd(p1, DSub(p2, p1))

(* p1 + t as f64 * (p2 - p1) *)
Lerp(p1, p2, t) == DAdd(p1, DMul(AsF64(t), DSub(p2, p1)))

(* mutant of MixesModels: entries of any two models are interpolated *)
MixesModelsNever(p1, p2) == FALSE

(* line 228: p1.3 != p2.3, the model tags that extract_dist_params gave *)
MixesModels(p1, p2) == p1[4] # p2[4]

(* mutant of NeutralTca: the scale factors of an absent table are 0.0 *)
NeutralTcaZero == <<DZero, DZero>>

(* lines 207, 247, 284: the result for a category without entries *)
NeutralDistortion == <<DZero, DZero, DZero, 0>>
NeutralTca == <<DOne, DOne>>
NeutralVignetting == <<DZero, DZero, DZero>>

(* lines 206-244 *)
ResolveDistortion(distortions, fl) ==
    IF distortions = <<>> THEN NeutralDistortion
    ELSE LET v == SortByFocal(distortions)
             exact == FindExact(v, fl)
             i == FindBracket(v, fl)
         IN  IF exact # 0 THEN extract_dist_params(v[exact])
             ELSE IF FLt(fl, v[1].focal) THEN extract_dist_params(v[1])
             ELSE IF FGt(fl, v[Len(v)].focal) THEN extract_dist_params(v[Len(v)])
             ELSE IF i = 0 THEN <<DZero, DZero, DZero, 0>>
             ELSE LET p1 == extract_dist_params(v[i])
                      p2 == extract_dist_params(v[i + 1])
                      range == FSub(v[i + 1].focal, v[i].focal)
                      t == FDiv(FSub(fl, v[i].focal), range)
                  IN  IF FLt(FAbs(range), FocalEps) \/ MixesModels(p1, p2) THEN p1
                      ELSE <<Lerp(p1[1], p2[1], t), Lerp(p1[2], p2[2], t),
                             Lerp(p1[3], p2[3], t), p1[4]>>

(* lines 246-281 *)
ResolveTca(tcas, fl) ==
    IF tcas = <<>> THEN NeutralTca
    ELSE LET v == SortByFocal(tcas)
             exact == FindExact(v, fl)
             i == FindBracket(v, fl)
         IN  IF exact # 0 THEN extract_tca_params(v[exact])
             ELSE IF FLt(fl, v[1].focal) THEN extract_tca_params(v[1])
             ELSE IF FGt(fl, v[Len(v)].focal) THEN extract_tca_params(v[Len(v)])
             ELSE IF i = 0 THEN <<DOne, DOne>>
             ELSE LET p1 == extract_tca_params(v[i])
                      p2 == extract_tca_params(v[i + 1])
                      range == FSub(v[i + 1].focal, v[i].focal)
                      t == FDiv(FSub(fl, v[i].focal), range)
                  IN  IF FLt(FAbs(range), FocalEps) THEN p1
                      ELSE <<Lerp(p1[1], p2[1], t), Lerp(p1[2], p2[2], t)>>

(* Iterator::min_by on |key - target|: the first of the least elements *)
FirstNearest(keys, target) ==
    CHOOSE i \in 1..Len(keys) :
        /\ \A j \in 1..Len(keys) :
              FLe(FAbs(FSub(keys[i], target)), FAbs(FSub(keys[j], target)))
        /\ \A j \in 1..(i - 1) :
              FLt(FAbs(FSub(keys[i], target)), FAbs(FSub(keys[j], target)))

(* mutant of find_best_vig: nearest distance first, then nearest aperture   *)
(* among the entries at that distance                                       *)
find_best_vig_distance_first(items, target_aperture, target_distance) ==
    IF items = <<>> THEN <<DZero, DZero, DZero>>
    ELSE LET best_d == items[FirstNearest([k \in 1..Len(items) |->
                                  UnwrapOr(items[k].distance, FromInt(1000))], target_distance)]
             candidates == SelectSeq(items, LAMBDA x :
                               UnwrapOr(x.distance, FromInt(1000))
                                   = UnwrapOr(best_d.distance, FromInt(1000)))
             best == candidates[FirstNearest([k \in 1..Len(candidates) |->
                                  candidates[k].aperture], target_aperture)]
         IN  extract_vig_params(best)

(* lines 291-304: the closure find_best_vig *)
find_best_vig(items, target_aperture, target_distance) ==
    IF items = <<>> THEN <<DZero, DZero, DZero>>
    ELSE LET best_ap == items[FirstNearest([k \in 1..Len(items) |-> items[k].aperture],
                                           target_aperture)]
             candidates == SelectSeq(items, LAMBDA x :
                               FLt(FAbs(FSub(x.aperture, best_ap.aperture)), GroupEps))
             best_dist == candidates[FirstNearest([k \in 1..Len(candidates) |->
                                  UnwrapOr(candidates[k].distance, FromInt(1000))],
                                  target_distance)]
         IN  extract_vig_params(best_dist)

(* filter(|x| (x.focal - focal).abs() < 0.01) *)
FocalGroup(v, focal) == SelectSeq(v, LAMBDA x : FLt(FAbs(FSub(x.focal, focal)), GroupEps))

(* lines 315-320: the first pair (i, i+1) of different focal lengths that   *)
(* brackets the query, 0 when none                                          *)
VigBracketAt(v, fl, i) ==
    /\ ~FLt(FAbs(FSub(v[i].focal, v[i + 1].focal)), GroupEps)
    /\ FLe(v[i].focal, fl)
    /\ FLe(fl, v[i + 1].focal)
FindVigBracket(v, fl) ==
    IF \E i \in 1..(Len(v) - 1) : VigBracketAt(v, fl, i)
    THEN CHOOSE i \in 1..(Len(v) - 1) :
            /\ VigBracketAt(v, fl, i)
            /\ \A j \in 1..(i - 1) : ~VigBracketAt(v, fl, j)
    ELSE 0

(* mutant of ResolveVignetting: the span is not tested before the division *)
ResolveVignettingUnguarded(vignettings, fl, ap, dist) ==
    IF vignettings = <<>> THEN NeutralVignetting
    ELSE LET target_aperture == UnwrapOr(ap, Dec(35, 10))
             target_distance == UnwrapOr(dist, FromInt(1000))
             v == SortByFocal(vignettings)
             i == FindVigBracket(v, fl)
         IN  IF FLe(fl, FAdd(v[1].focal, GroupEps))
             THEN find_best_vig(FocalGroup(v, v[1].focal), target_aperture, target_distance)
             ELSE IF FLe(FSub(v[Len(v)].focal, GroupEps), fl)
             THEN find_best_vig(FocalGroup(v, v[Len(v)].focal), target_aperture, target_distance)
             ELSE IF i = 0 THEN <<DZero, DZero, DZero>>
             ELSE LET p1 == find_best_vig(FocalGroup(v, v[i].focal),
                                          target_aperture, target_distance)
                      p2 == find_best_vig(FocalGroup(v, v[i + 1].focal),
                                          target_aperture, target_distance)
                      range == FSub(v[i + 1].focal, v[i].focal)
                      t == FDiv(FSub(fl, v[i].focal), range)
                  IN  <<Lerp(p1[1], p2[1], t), Lerp(p1[2], p2[2], t), Lerp(p1[3], p2[3], t)>>

(* lines 283-343 *)
ResolveVignetting(vignettings, fl, ap, dist) ==
    IF vignettings = <<>> THEN NeutralVignetting
    ELSE LET target_aperture == UnwrapOr(ap, Dec(35, 10))
             target_distance == UnwrapOr(dist, FromInt(1000))
             v == SortByFocal(vignettings)
             i == FindVigBracket(v, fl)
         IN  IF FLe(fl, FAdd(v[1].focal, GroupEps))
             THEN find_best_vig(FocalGroup(v, v[1].focal), target_aperture, target_distance)
             ELSE IF FLe(FSub(v[Len(v)].focal, GroupEps), fl)
             THEN find_best_vig(FocalGroup(v, v[Len(v)].focal), target_aperture, target_distance)
             ELSE IF i = 0 THEN <<DZero, DZero, DZero>>
             ELSE LET p1 == find_best_vig(FocalGroup(v, v[i].focal),
                                          target_aperture, target_distance)
                      p2 == find_best_vig(FocalGroup(v, v[i + 1].focal),
                                          target_aperture, target_distance)
                      range == FSub(v[i + 1].focal, v[i].focal)
                      t == FDiv(FSub(fl, v[i].focal), range)
                  IN  IF FGt(FAbs(range), GroupEps)
                      THEN <<Lerp(p1[1], p2[1], t), Lerp(p1[2], p2[2], t), Lerp(p1[3], p2[3], t)>>
                      ELSE p1

(* the elements of one category, in table order (lines 194-204) *)
ElementsOf(cal, category) == SelectSeq(cal, LAMBDA el : el.category = category)

(* lines 345-349 *)
LensDistortionParams(d, tca, vig) ==
    [k1 |-> d[1], k2 |-> d[2], k3 |-> d[3], model |-> d[4],
     tca_vr |-> tca[1], tca_vb |-> tca[2],
     vig_k1 |-> vig[1], vig_k2 |-> vig[2], vig_k3 |-> vig[3]]

(* mutant of get_distortion_params: a calibration block without elements   *)
(* counts as no calibration                                                 *)
get_distortion_params_needs_elements(cal, fl, ap, dist) ==
    IF ~IsSome(cal) \/ cal = Some(<<>>) THEN None
    ELSE Some(LensDistortionParams(
            ResolveDistortion(ElementsOf(Unwrap(cal), "distortion"), fl),
            ResolveTca(ElementsOf(Unwrap(cal), "tca"), fl),
            ResolveVignetting(ElementsOf(Unwrap(cal), "vignetting"),
                              fl, ap, dist)))

(* lines 191-350 *)
get_distortion_params(cal, fl, ap, dist) ==
    IF ~IsSome(cal) THEN None
    ELSE Some(LensDistortionParams(
            ResolveDistortion(ElementsOf(Unwrap(cal), "distortion"), fl),
            ResolveTca(ElementsOf(Unwrap(cal), "tca"), fl),
            ResolveVignetting(ElementsOf(Unwrap(cal), "vignetting"),
                              fl, ap, dist)))

(* one call of get_distortion_params *)
GetDistortionParams ==
    /\ lpc = "call"
    /\ lpc' = "returned"
    /\ params' = Some(get_distortion_params(calibration, focal_length, aperture, distance))
    /\ UNCHANGED <<calibration, focal_length, aperture, distance>>
    /\ UNCHANGED <<original_white_level, original_black_level, highlight_compression,
                   pixel, sample, locals, hpc, denoise, loader>>
    /\ UNCHANGED <<caller, steps, demosaic_algorithm, rawimage, intermediate, wb, xyz2cam,
                   pc, err, ran, aa_used, wb_kept, outside>>

(* Inputs of the lens resolver *)

(* the longest table of one category *)
MaxEntries == 3

Eighth(n) == Dec(n, 8)

Distortion(kind, focal, k, abc) ==
    [category |-> "distortion", model |-> kind, focal |-> FromInt(focal),
     k1 |-> k[1], k2 |-> k[2], k3 |-> k[3], a |-> abc[1], b |-> abc[2], c |-> abc[3]]
Tca(focal, vr, vb) ==
    [category |-> "tca", model |-> "poly3", focal |-> FromInt(focal), vr |-> vr, vb |-> vb]
Vignetting(focal, ap, dist, k) ==
    [category |-> "vignetting", model |-> "pa", focal |-> FromInt(focal),
     aperture |-> ap, distance |-> dist,
     k1 |-> Some(FNeg(Eighth(k))), k2 |-> Some(Eighth(k)), k3 |-> None]

NoCoefs == <<None, None, None>>
DistortionPool ==
    <<Distortion("poly3", 24, <<Some(Eighth(2)), None, None>>, NoCoefs),
      Distortion("ptlens", 24, <<Some(Eighth(7)), None, None>>,
                 <<Some(Eighth(1)), Some(FNeg(Eighth(3))), Some(Eighth(5))>>),
      Distortion("poly5", 56, <<Some(Eighth(6)), Some(FNeg(Eighth(1))), None>>, NoCoefs),
      Distortion("acm", 56, <<Some(Eighth(4)), Some(Eighth(4)), Some(Eighth(4))>>, NoCoefs),
      Distortion("poly3", 70, <<Some(FNeg(Eighth(2))), None, None>>, NoCoefs),
      Distortion("ptlens", 70, NoCoefs,
                 <<Some(Eighth(3)), Some(Eighth(2)), Some(FNeg(Eighth(1)))>>)>>
TcaPool ==
    <<Tca(24, Some(Eighth(9)), Some(Eighth(7))),
      Tca(56, Some(Eighth(8)), None),
      Tca(70, Some(Eighth(10)), Some(Eighth(6))),
      Tca(70, None, Some(Eighth(9)))>>
VignettingPool ==
    <<Vignetting(24, Dec(28, 10), Some(FromInt(10)), 1),
      Vignetting(24, Dec(28, 10), Some(FromInt(1000)), 2),
      Vignetting(24, FromInt(4), Some(FromInt(10)), 3),
      Vignetting(24, FromInt(4), None, 4),
      Vignetting(56, Dec(28, 10), Some(FromInt(1000)), 5),
      Vignetting(56, Dec(56, 10), Some(FromInt(10)), 6),
      Vignetting(70, FromInt(4), Some(FromInt(1000)), 7)>>

(* the tables of up to MaxEntries entries of a pool, in pool order and in   *)
(* the opposite order                                                       *)
TablesOf(pool) ==
    LET picks == {S \in SUBSET (1..Len(pool)) : Cardinality(S) <= MaxEntries}
        InOrder(S) == SelectSeq(pool, LAMBDA el : \E i \in S : pool[i] = el)
    IN  {InOrder(S) : S \in picks} \cup {Reverse(InOrder(S)) : S \in picks}

(* the spec's scenario: 24mm k1 = 0.1 and 70mm k1 = 0.3 *)
ScenarioTable ==
    <<Distortion("poly3", 24, <<Some(Dec(1, 10)), None, None>>, NoCoefs),
      Distortion("poly3", 70, <<Some(Dec(3, 10)), None, None>>, NoCoefs)>>

(* fixed tables of a category that is not the one being varied *)
FixedDistortion ==
    <<DistortionPool[3],
      Distortion("poly5", 24, <<Some(Eighth(3)), None, Some(Eighth(1))>>, NoCoefs)>>
FixedTca == <<TcaPool[1], TcaPool[2]>>
FixedVignetting == <<VignettingPool[5], VignettingPool[3]>>

(* query focal lengths: outside the tables, on an entry, within 1e-5 of an  *)
(* entry, and between entries                                               *)
Near24 == FAdd(FromInt(24), F(0, Two(23), 0 - 41))
Between == {FromInt(40), FromInt(47), FromInt(63)}
Queries == {FromInt(10), FromInt(24), Near24, FromInt(56), FromInt(70), FromInt(100)}
              \cup Between
(* within 0.01 of the first and of the last focal length, not within 1e-5 *)
Above24 == FAdd(FromInt(24), Dec(5, 1000))
Below70 == FSub(FromInt(70), Dec(5, 1000))

LensCall(cal, fl, ap, dist) ==
    [calibration |-> cal, focal_length |-> fl, aperture |-> ap, distance |-> dist]

CallsByDistortion ==
    {LensCall(Some(d \o t), q, None, None) :
        d \in TablesOf(DistortionPool), t \in {<<>>, FixedTca}, q \in Queries}
CallsByTca ==
    {LensCall(Some(t \o v), q, None, None) :
        t \in TablesOf(TcaPool), v \in {<<>>, FixedVignetting}, q \in Queries}
CallsByVignetting ==
    {LensCall(Some(v \o d), q, ap, dist) :
        v \in TablesOf(VignettingPool), d \in {<<>>, FixedDistortion},
        q \in Queries \cup {Above24, Below70},
        ap \in {None, Some(Dec(28, 10)), Some(Dec(56, 10))},
        dist \in {None, Some(FromInt(10))}}
CallsByScenario ==
    {LensCall(Some(ScenarioTable), q, None, None) :
        q \in {FromInt(10), FromInt(24), FromInt(47), FromInt(70), FromInt(100)}}
CallsWithoutCalibration == {LensCall(None, q, None, None) : q \in Queries}

(* tables with entries of nearly the same focal length: 24 and 24 + 2^-18   *)
(* (closer than 1e-5), 56 and 56 + 2^-8 (closer than 0.01), 0.01 and 0.02   *)
(* (exactly 0.01 apart in f32), and queries inside these pairs              *)
At(el, f) == [el EXCEPT !.focal = f]
Inside24 == FAdd(FromInt(24), F(0, Two(23), 0 - 42))
Near56 == FAdd(FromInt(56), F(0, Two(23), 0 - 31))
Inside56 == FAdd(FromInt(56), F(0, Two(23), 0 - 32))
NearSpanDistortion ==
    <<DistortionPool[1], At(DistortionPool[5], Near24), DistortionPool[3]>>
NearSpanTca == <<TcaPool[1], At(TcaPool[3], Near24), TcaPool[2]>>
NearSpanVignetting ==
    <<VignettingPool[1], VignettingPool[5], At(VignettingPool[6], Near56), VignettingPool[7]>>
EqualSpanVignetting ==
    <<At(VignettingPool[1], FZero), At(VignettingPool[5], Dec(1, 100)),
      At(VignettingPool[6], Dec(2, 100)), At(VignettingPool[7], FromInt(5))>>
CallsByNearSpan ==
    {LensCall(Some(d \o t), q, None, None) :
        d \in {NearSpanDistortion, Reverse(NearSpanDistortion), <<>>},
        t \in {NearSpanTca, Reverse(NearSpanTca), <<>>},
        q \in {Inside24, Near24, FromInt(24), FromInt(40), FromInt(56)}}
    \cup {LensCall(Some(v), q, ap, None) :
        v \in {NearSpanVignetting, Reverse(NearSpanVignetting)},
        q \in {Inside56, Near56, FromInt(40), FromInt(56), FromInt(63)},
        ap \in {None, Some(Dec(56, 10))}}
    \cup {LensCall(Some(v), q, ap, None) :
        v \in {EqualSpanVignetting, Reverse(EqualSpanVignetting)},
        q \in {Dec(15, 1000), FromInt(1)},
        ap \in {None, Some(Dec(56, 10))}}

LensCalls ==
    CallsByDistortion \cup CallsByTca \cup CallsByVignetting \cup CallsByScenario
        \cup CallsWithoutCalibration \cup CallsByNearSpan

InitLens ==
    /\ PipelineAtHighlight
    /\ original_white_level = <<>>
    /\ original_black_level = <<>>
    /\ highlight_compression = <<>>
    /\ pixel = <<>>
    /\ sample = <<>>
    /\ locals = <<>>
    /\ hpc = "off"
    /\ DenoiseOff
    /\ LoaderOff
    /\ \E c \in LensCalls :
        /\ calibration = c.calibration
        /\ focal_length = c.focal_length
        /\ aperture = c.aperture
        /\ distance = c.distance
    /\ params = None
    /\ lpc = "call"

NextLens == GetDistortionParams
SpecLens == InitLens /\ [][NextLens]_vars

----------------------------------------------------------------------------
(* Properties of the lens resolver *)

Returned == lpc = "returned" /\ IsSome(calibration)
Resolved == Unwrap(Unwrap(params))
ResolvedDistortion == <<Resolved.k1, Resolved.k2, Resolved.k3>>
ResolvedTca == <<Resolved.tca_vr, Resolved.tca_vb>>
ResolvedVignetting == <<Resolved.vig_k1, Resolved.vig_k2, Resolved.vig_k3>>
DistortionTable == ElementsOf(Unwrap(calibration), "distortion")
TcaTable == ElementsOf(Unwrap(calibration), "tca")
VignettingTable == ElementsOf(Unwrap(calibration), "vignetting")

(* how the query lies in a table: on an entry, below all, above all, inside *)
OnEntry(table, i) == FLt(FAbs(FSub(table[i].focal, focal_length)), FocalEps)
Position(table) ==
    IF \E i \in 1..Len(table) : OnEntry(table, i) THEN "exact"
    ELSE IF \A i \in 1..Len(table) : FLt(focal_length, table[i].focal) THEN "below"
    ELSE IF \A i \in 1..Len(table) : FLt(table[i].focal, focal_length) THEN "above"
    ELSE "inside"

(* entry i comes before entry j when the table is ordered by focal length,  *)
(* entries of one focal length staying in table order                       *)
Before(table, i, j) ==
    \/ FLt(table[i].focal, table[j].focal)
    \/ table[i].focal = table[j].focal /\ i <= j

(* the entry that answers a query on an entry, below or above the table *)
Answering(table) ==
    LET n == 1..Len(table)
    IN  CASE Position(table) = "exact" ->
                CHOOSE i \in n : OnEntry(table, i)
                    /\ \A j \in n : OnEntry(table, j) => Before(table, i, j)
          [] Position(table) = "below" -> CHOOSE i \in n : \A j \in n : Before(table, i, j)
          [] Position(table) = "above" -> CHOOSE i \in n : \A j \in n : Before(table, j, i)

OrZero(o) == IF IsSome(o) THEN AsF64(Unwrap(o)) ELSE DZero
OrOne(o) == IF IsSome(o) THEN AsF64(Unwrap(o)) ELSE DOne

(* the coefficients an entry stores for its model *)
Stored(e) ==
    IF e.model = "ptlens" THEN <<OrZero(e.a), OrZero(e.b), OrZero(e.c)>>
    ELSE <<OrZero(e.k1), OrZero(e.k2), OrZero(e.k3)>>
Recognised(e) == e.model \in {"poly3", "poly5", "ptlens"}

(* C12 as stated: a query on an entry, below the least or above the         *)
(* greatest focal length of a non-empty distortion or TCA table returns the *)
(* coefficients that entry stores                                           *)
C12_AsStated ==
    Returned =>
        /\ (DistortionTable # <<>> /\ Position(DistortionTable) # "inside")
              => ResolvedDistortion = Stored(DistortionTable[Answering(DistortionTable)])
        /\ (TcaTable # <<>> /\ Position(TcaTable) # "inside")
              => ResolvedTca = <<OrOne(TcaTable[Answering(TcaTable)].vr),
                                 OrOne(TcaTable[Answering(TcaTable)].vb)>>

(* C12: a query on an entry (within 1e-5), below the least or above the     *)
(* greatest focal length of a non-empty table is answered from one entry,   *)
(* without interpolation: for distortion, k1..k3 of a poly3 or poly5 entry, *)
(* a, b, c of a ptlens entry, and (0,0,0) for an entry of any other model;  *)
(* for TCA, vr and vb; an absent coefficient reads as 0 (TCA: 1.0)          *)
C12_PinnedToOneEntry ==
    Returned =>
        /\ (DistortionTable # <<>> /\ Position(DistortionTable) # "inside")
              => LET e == DistortionTable[Answering(DistortionTable)]
                 IN  /\ ResolvedDistortion
                            = IF Recognised(e) THEN Stored(e) ELSE <<DZero, DZero, DZero>>
                     /\ Resolved.model = IF e.model = "ptlens" THEN 1 ELSE 0
        /\ (TcaTable # <<>> /\ Position(TcaTable) # "inside")
              => ResolvedTca = <<OrOne(TcaTable[Answering(TcaTable)].vr),
                                 OrOne(TcaTable[Answering(TcaTable)].vb)>>

(* a query above a table of several entries, answered by a ptlens entry *)
C12_Witness ==
    /\ Returned
    /\ Len(DistortionTable) > 1
    /\ Position(DistortionTable) = "above"
    /\ DistortionTable[Answering(DistortionTable)].model = "ptlens"
    /\ Resolved.model = 1
    /\ ResolvedDistortion # <<DZero, DZero, DZero>>

(* the entries next below and next above a query inside a table *)
Lower(table) ==
    CHOOSE i \in 1..Len(table) :
        /\ FLt(table[i].focal, focal_length)
        /\ \A j \in 1..Len(table) : FLt(table[j].focal, focal_length) => Before(table, j, i)
Upper(table) ==
    CHOOSE i \in 1..Len(table) :
        /\ FLt(focal_length, table[i].focal)
        /\ \A j \in 1..Len(table) : FLt(focal_length, table[j].focal) => Before(table, i, j)

(* (q - f1) / (f2 - f1) in f32 *)
Fraction(f1, f2) == FDiv(FSub(focal_length, f1), FSub(f2, f1))
(* c1 + t * (c2 - c1), coefficient by coefficient *)
Blend(c1, c2, t) ==
    [k \in 1..Len(c1) |-> DAdd(c1[k], DMul(AsF64(t), DSub(c2[k], c1[k])))]

(* the f32 nearest to an f64 value *)
Narrow(d) == Pack(d.s, d.m, d.e, 0)
(* |x - y| <= 2^-20 for f64 values x, y *)
Close(x, y) == FLe(FAbs(FSub(Narrow(x), Narrow(y))), F(0, Two(23), 0 - 43))
AllClose(c, d) == \A k \in 1..Len(c) : Close(c[k], d[k])

(* the best matches of the focal groups around a vignetting query *)
VigRequest == <<UnwrapOr(aperture, Dec(35, 10)), UnwrapOr(distance, FromInt(1000))>>
VigGroup(i) ==
    SelectSeq(VignettingTable,
              LAMBDA x : FLt(FAbs(FSub(x.focal, VignettingTable[i].focal)), GroupEps))
VigBest(i) == find_best_vig(VigGroup(i), VigRequest[1], VigRequest[2])
(* the query is within 0.01 of the least, of the greatest focal length *)
VigAtLeast ==
    \E i \in 1..Len(VignettingTable) :
        /\ \A j \in 1..Len(VignettingTable) : Before(VignettingTable, i, j)
        /\ FLe(focal_length, FAdd(VignettingTable[i].focal, GroupEps))
VigAtGreatest ==
    \E i \in 1..Len(VignettingTable) :
        /\ \A j \in 1..Len(VignettingTable) : Before(VignettingTable, j, i)
        /\ FLe(FSub(VignettingTable[i].focal, GroupEps), focal_length)

Inside(table) == table # <<>> /\ Position(table) = "inside"

(* C13 as stated: for a query strictly between two adjacent table focal     *)
(* lengths f1 < f2 every resolved coefficient is c1 + (q-f1)/(f2-f1) *      *)
(* (c2-c1) (compared to within 2^-20), for distortion entries of one model, *)
(* for TCA, and for vignetting between the best matches of the two groups   *)
C13_AsStated ==
    Returned =>
        /\ (/\ Inside(DistortionTable)
            /\ DistortionTable[Lower(DistortionTable)].model
                  = DistortionTable[Upper(DistortionTable)].model)
              => LET d1 == DistortionTable[Lower(DistortionTable)]
                     d2 == DistortionTable[Upper(DistortionTable)]
                 IN  AllClose(ResolvedDistortion,
                              Blend(Stored(d1), Stored(d2), Fraction(d1.focal, d2.focal)))
        /\ Inside(TcaTable)
              => LET d1 == TcaTable[Lower(TcaTable)]
                     d2 == TcaTable[Upper(TcaTable)]
                 IN  AllClose(ResolvedTca,
                              Blend(<<OrOne(d1.vr), OrOne(d1.vb)>>, <<OrOne(d2.vr), OrOne(d2.vb)>>,
                                    Fraction(d1.focal, d2.focal)))
        /\ Inside(VignettingTable)
              => LET i1 == Lower(VignettingTable)
                     i2 == Upper(VignettingTable)
                 IN  AllClose(ResolvedVignetting,
                              Blend(VigBest(i1), VigBest(i2),
                                    Fraction(VignettingTable[i1].focal,
                                             VignettingTable[i2].focal)))

(* C13: for a query strictly between two adjacent table focal lengths       *)
(* f1 < f2 every resolved coefficient is c1 + t * (c2 - c1) in f64, with    *)
(* t = (q - f1) / (f2 - f1) computed in f32: for distortion entries of one  *)
(* recognised model, for TCA, and for vignetting between the best matches   *)
(* of the two groups unless the query is within 0.01 of the least or the    *)
(* greatest focal length, where the best match of that group is returned,   *)
(* or f2 - f1 is not more than 0.01, where the result is the lower group's  *)
(* best match (f2 - f1 = 0.01) or (0, 0, 0) (f2 - f1 < 0.01);               *)
(* 24mm k1=0.1 and 70mm k1=0.3 queried at 47mm give 0.2 to f32 precision    *)
C13_Interpolated ==
    Returned =>
        /\ (/\ Inside(DistortionTable)
            /\ DistortionTable[Lower(DistortionTable)].model
                  = DistortionTable[Upper(DistortionTable)].model
            /\ Recognised(DistortionTable[Lower(DistortionTable)]))
              => LET d1 == DistortionTable[Lower(DistortionTable)]
                     d2 == DistortionTable[Upper(DistortionTable)]
                 IN  ResolvedDistortion
                        = Blend(Stored(d1), Stored(d2), Fraction(d1.focal, d2.focal))
        /\ Inside(TcaTable)
              => LET d1 == TcaTable[Lower(TcaTable)]
                     d2 == TcaTable[Upper(TcaTable)]
                 IN  ResolvedTca
                        = Blend(<<OrOne(d1.vr), OrOne(d1.vb)>>, <<OrOne(d2.vr), OrOne(d2.vb)>>,
                                Fraction(d1.focal, d2.focal))
        /\ Inside(VignettingTable)
              => LET i1 == Lower(VignettingTable)
                     i2 == Upper(VignettingTable)
                     gap == FAbs(FSub(VignettingTable[i2].focal, VignettingTable[i1].focal))
                 IN  ResolvedVignetting
                        = IF VigAtLeast THEN VigBest(i1)
                          ELSE IF VigAtGreatest THEN VigBest(i2)
                          ELSE IF FLt(gap, Dec(1, 100)) THEN <<DZero, DZero, DZero>>
                          ELSE IF gap = Dec(1, 100) THEN VigBest(i1)
                          ELSE Blend(VigBest(i1), VigBest(i2),
                                     Fraction(VignettingTable[i1].focal,
                                              VignettingTable[i2].focal))
        /\ (Unwrap(calibration) = ScenarioTable /\ focal_length = FromInt(47))
              => Narrow(Resolved.k1) = Dec(2, 10)

(* a vignetting query between two groups and a distortion query between two *)
(* entries of one model, each answered by a value that is neither entry's   *)
C13_Witness ==
    /\ Returned
    /\ Inside(VignettingTable)
    /\ ~VigAtLeast
    /\ ~VigAtGreatest
    /\ ResolvedVignetting \notin {VigBest(Lower(VignettingTable)), VigBest(Upper(VignettingTable))}
    /\ Inside(DistortionTable)
    /\ DistortionTable[Lower(DistortionTable)].model
          = DistortionTable[Upper(DistortionTable)].model
    /\ ResolvedDistortion \notin {Stored(DistortionTable[Lower(DistortionTable)]),
                                  Stored(DistortionTable[Upper(DistortionTable)])}

(* what the resolver reads from a distortion entry, and the entry's tag *)
Read(e) == IF Recognised(e) THEN Stored(e) ELSE <<DZero, DZero, DZero>>
Tag(e) == IF e.model = "ptlens" THEN 1 ELSE 0

(* C14 as stated: when the distortion entries around the query have         *)
(* different models (the model names of the table), the result is the       *)
(* lower entry's coefficients and model tag, without interpolation          *)
C14_AsStated ==
    (/\ Returned
     /\ Inside(DistortionTable)
     /\ DistortionTable[Lower(DistortionTable)].model
           # DistortionTable[Upper(DistortionTable)].model)
        => /\ ResolvedDistortion = Read(DistortionTable[Lower(DistortionTable)])
           /\ Resolved.model = Tag(DistortionTable[Lower(DistortionTable)])

(* C14: when the distortion entries around the query have different model  *)
(* tags (ptlens on one side, any other model on the other), the result is   *)
(* the lower entry's coefficients and tag, without interpolation; entries   *)
(* of different models that share tag 0 (poly3, poly5 and unrecognised      *)
(* models, the latter read as zeros) are interpolated with each other       *)
C14_TagsNeverMixed ==
    (Returned /\ Inside(DistortionTable)) =>
        LET d1 == DistortionTable[Lower(DistortionTable)]
            d2 == DistortionTable[Upper(DistortionTable)]
        IN  /\ Resolved.model = Tag(d1)
            /\ Tag(d1) # Tag(d2) => ResolvedDistortion = Read(d1)
            /\ (Tag(d1) = Tag(d2) /\ d1.model # d2.model)
                  => ResolvedDistortion = Blend(Read(d1), Read(d2), Fraction(d1.focal, d2.focal))

(* a query between a ptlens entry and a polynomial entry above it, answered *)
(* by the ptlens entry's a, b, c                                            *)
C14_Witness ==
    /\ Returned
    /\ Inside(DistortionTable)
    /\ DistortionTable[Lower(DistortionTable)].model = "ptlens"
    /\ DistortionTable[Upper(DistortionTable)].model = "poly5"
    /\ Read(DistortionTable[Upper(DistortionTable)]) # <<DZero, DZero, DZero>>
    /\ ResolvedDistortion = Stored(DistortionTable[Lower(DistortionTable)])
    /\ ResolvedDistortion # <<DZero, DZero, DZero>>
    /\ Resolved.model = 1

(* C15: a calibration without entries of a category resolves that category  *)
(* to its neutral default, distortion (0,0,0) with tag 0, TCA (1.0,1.0),    *)
(* vignetting (0,0,0), whatever the other categories hold; a lens without   *)
(* calibration gets no parameters (None), which is not an error             *)
C15_NeutralDefaults ==
    lpc = "returned" =>
        IF IsSome(calibration)
        THEN /\ IsSome(Unwrap(params))
             /\ DistortionTable = <<>>
                   => ResolvedDistortion = <<DZero, DZero, DZero>> /\ Resolved.model = 0
             /\ TcaTable = <<>> => ResolvedTca = <<AsF64(FromInt(1)), AsF64(FromInt(1))>>
             /\ VignettingTable = <<>> => ResolvedVignetting = <<DZero, DZero, DZero>>
        ELSE params = Some(None)

(* a calibration with TCA entries only: TCA is resolved from the table,     *)
(* distortion and vignetting are neutral                                    *)
C15_Witness ==
    /\ Returned
    /\ DistortionTable = <<>>
    /\ VignettingTable = <<>>
    /\ Len(TcaTable) > 1
    /\ ResolvedTca # <<AsF64(FromInt(1)), AsF64(FromInt(1))>>
    /\ ResolvedDistortion = <<DZero, DZero, DZero>>
    /\ ResolvedVignetting = <<DZero, DZero, DZero>>

(* the focal group a vignetting query at the edge of the table is answered  *)
(* from: the entries within 0.01 of the least (greatest) focal length       *)
EdgeGroup ==
    LET n == 1..Len(VignettingTable)
        edge == IF VigAtLeast
                THEN CHOOSE i \in n : \A j \in n : Before(VignettingTable, i, j)
                ELSE CHOOSE i \in n : \A j \in n : Before(VignettingTable, j, i)
    IN  VigGroup(edge)

(* two-stage nearest neighbour: the nearest aperture, then the nearest      *)
(* distance among the entries of that aperture; the first of equals         *)
ApertureGap(g, i) == FAbs(FSub(g[i].aperture, VigRequest[1]))
DistanceGap(g, i) ==
    FAbs(FSub(IF IsSome(g[i].distance) THEN Unwrap(g[i].distance) ELSE FromInt(1000),
              VigRequest[2]))
NearestAperture(g) ==
    CHOOSE i \in 1..Len(g) :
        /\ \A j \in 1..Len(g) : FLe(ApertureGap(g, i), ApertureGap(g, j))
        /\ \A j \in 1..(i - 1) : FLt(ApertureGap(g, i), ApertureGap(g, j))
SharesAperture(g, i) ==
    FLt(FAbs(FSub(g[i].aperture, g[NearestAperture(g)].aperture)), Dec(1, 100))
Chosen(g) ==
    CHOOSE i \in 1..Len(g) :
        /\ SharesAperture(g, i)
        /\ \A j \in 1..Len(g) :
              SharesAperture(g, j) => FLe(DistanceGap(g, i), DistanceGap(g, j))
        /\ \A j \in 1..(i - 1) :
              SharesAperture(g, j) => FLt(DistanceGap(g, i), DistanceGap(g, j))

(* C16: inside one focal group the vignetting entry chosen is the one with  *)
(* the aperture nearest to the requested aperture and, among the entries    *)
(* of that aperture (within 0.01), the one with the distance nearest to the *)
(* requested distance, an entry without distance counting as 1000; the      *)
(* request is aperture 3.5, distance 1000 where the caller gives none       *)
C16_TwoStageNearest ==
    (Returned /\ VignettingTable # <<>> /\ (VigAtLeast \/ VigAtGreatest)) =>
        LET e == EdgeGroup[Chosen(EdgeGroup)]
        IN  ResolvedVignetting = <<OrZero(e.k1), OrZero(e.k2), OrZero(e.k3)>>

(* a group of three entries queried with the default request: the entry     *)
(* chosen has the nearest aperture although another entry is nearer in      *)
(* distance                                                                 *)
C16_Witness ==
    /\ Returned
    /\ VignettingTable # <<>>
    /\ VigAtLeast
    /\ aperture = None
    /\ distance = None
    /\ Len(EdgeGroup) = 3
    /\ Chosen(EdgeGroup) # 1
    /\ \E j \in 1..3 : FLt(DistanceGap(EdgeGroup, j), DistanceGap(EdgeGroup, Chosen(EdgeGroup)))
    /\ ResolvedVignetting[2] = OrZero(EdgeGroup[Chosen(EdgeGroup)].k2)

----------------------------------------------------------------------------
(* Properties of the crop and demosaic stages *)

(* the crop rectangle of the CropDefault stage, when there is one *)
StageCrop == DefaultCropRect(steps, rawimage, intermediate)
CropIsApplied ==
    /\ Contains(steps, "CropDefault")
    /\ IsSome(rawimage.crop_area)
    /\ StageCrop.d.w > 0
    /\ StageCrop.d.h > 0
    /\ StageCrop.d # intermediate.dim

(* C17: the CropDefault stage crops the Intermediate only when the crop     *)
(* rectangle is non-empty and its size differs from the Intermediate's; the *)
(* Intermediate then has the rectangle's size; in every other case (empty   *)
(* crop, crop of the current size, no default crop, step not asked for) the *)
(* Intermediate is left as it is                                            *)
C17_CropOnlyWhenItDiffers ==
    [][pc = "crop" =>
          IF CropIsApplied
          THEN /\ intermediate'.dim = StageCrop.d
               /\ intermediate'.crop = Some(StageCrop)
               /\ intermediate'.dim # intermediate.dim
               /\ intermediate'.variant = intermediate.variant
          ELSE intermediate' = intermediate]_vars

(* after a Speed demosaic of the active area the default crop, scaled to    *)
(* the halved image, has been applied                                       *)
C17_Witness ==
    /\ pc = "srgb"
    /\ Contains(ran, "CropDefault")
    /\ Contains(ran, "Demosaic")
    /\ IsSome(intermediate.crop)
    /\ intermediate.dim = Unwrap(intermediate.crop).d
    /\ intermediate.dim.w < RawW \div 2
    /\ intermediate.dim.w > 0

(* the Demosaic step is about to run on a one-channel CFA image whose CFA   *)
(* is RGB with a 2x2 tile                                                   *)
BayerAtDemosaic ==
    /\ pc = "demosaic"
    /\ Contains(steps, "Demosaic")
    /\ rawimage.photometric = "Cfa"
    /\ intermediate.variant = "Monochrome"
    /\ rawimage.cfa.is_rgb
    /\ rawimage.cfa.width = 2
    /\ rawimage.cfa.height = 2
(* the size of what is demosaiced: the active area when CropActiveArea is   *)
(* listed and the image has one, the whole image otherwise                  *)
DemosaicInput ==
    IF Contains(steps, "CropActiveArea") /\ IsSome(rawimage.active_area)
    THEN Unwrap(rawimage.active_area).d
    ELSE Dim2(rawimage.width, rawimage.height)

----------------------------------------------------------------------------
(* load_base_image_from_bytes (src-tauri/src/image_loader.rs) on a RAW file *)

CorruptError == "Failed to process corrupt RAW file"

(* mutant of Caught: the panic leaves the call *)
CaughtNothing(outcome, e, img) ==
    CASE outcome = "done"  -> Some([ok |-> TRUE, image |-> img])
      [] outcome = "err"   -> Some([ok |-> FALSE, err |-> e])
      [] outcome = "panic" -> Some([ok |-> FALSE, err |-> "panic"])

(* lines 46-56: the match on panic::catch_unwind(|| develop_raw_image(..)) *)
Caught(outcome, e, img) ==
    CASE outcome = "done"  -> Some([ok |-> TRUE, image |-> img])
      [] outcome = "err"   -> Some([ok |-> FALSE, err |-> e])
      [] outcome = "panic" -> Some([ok |-> FALSE, err |-> CorruptError])

(* raw_processing.rs lines 21-27: develop_raw_image hands on the error of   *)
(* develop_internal and orients the developed image                         *)
Oriented(img) == [img EXCEPT !.format = "ImageRgba32F, oriented"]

(* lines 45-57: develop_raw_image has ended; the call returns *)
LoadBaseImage ==
    /\ pc \in {"done", "err", "panic"}
    /\ loaded = None
    /\ loaded' = Caught(pc, err, IF pc = "done" THEN Oriented(Unwrap(image)) ELSE None)
    /\ UNCHANGED <<decoded, entry>>
    /\ UNCHANGED <<original_white_level, original_black_level, highlight_compression,
                   pixel, sample, locals, hpc, denoise, lens>>
    /\ UNCHANGED <<caller, steps, demosaic_algorithm, rawimage, intermediate, wb, xyz2cam,
                   pc, err, ran, aa_used, wb_kept, outside>>

(* the call of line 46 passes no cancel token *)
InitLoad ==
    /\ InitInternal
    /\ cancel_token = None
    /\ tracker = 0

NextLoad == DevelopInternal \/ DevelopIntermediate \/ LoadBaseImage
SpecLoad == InitLoad /\ [][NextLoad]_vars

(* C19: load_base_image_from_bytes on a RAW file returns once the           *)
(* development has ended, however it ended: a panic of the development is   *)
(* returned as the Err "Failed to process corrupt RAW file", an error of    *)
(* the development as that same Err, and a developed image as Ok            *)
C19_PanicBecomesErr ==
    /\ [][(pc \in {"done", "err", "panic"}) => loaded' # None]_vars
    /\ [](loaded # None =>
            /\ pc = "panic" => Unwrap(loaded) = [ok |-> FALSE, err |-> "Failed to process corrupt RAW file"]
            /\ pc = "err" => Unwrap(loaded) = [ok |-> FALSE, err |-> err]
            /\ pc = "done" => Unwrap(loaded).ok)

(* a file of two samples per pixel: the todo!() of develop_intermediate     *)
(* panicked and the call has returned Err                                   *)
C19_Witness ==
    /\ pc = "panic"
    /\ rawimage.cpp = 2
    /\ loaded # None
    /\ ~Unwrap(loaded).ok

----------------------------------------------------------------------------
(* Properties of the chroma filter's second pass *)

RowOf(i) == (i - 1) \div DnW
ColumnOf(i) == (i - 1) % DnW
(* the pixel the filter writes at i, computed from ycbcr_buffer alone *)
FilteredFromSource(i) ==
    LET oc == OutChroma(ycbcr_buffer, ColumnOf(i), RowOf(i), DnW, DnH)
    IN  yc_to_rgb(ycbcr_buffer[i][1], oc[1], oc[2])

(* C18: the rows of the chroma filter can be processed in any order: every  *)
(* step writes one unfinished row and nothing else, ycbcr_buffer is never   *)
(* written once it is built, and a finished row holds what the filter       *)
(* computes from ycbcr_buffer alone whichever rows were finished before it, *)
(* so the final image is the same for every order                           *)
C18_RowsIndependent ==
    /\ [][dpc = "filter" =>
             /\ ycbcr_buffer' = ycbcr_buffer
             /\ \E y \in (0..(DnH - 1)) \ rows :
                   /\ rows' = rows \cup {y}
                   /\ \A i \in 1..Len(buffer) : RowOf(i) # y => buffer'[i] = buffer[i]]_vars
    /\ [](dpc \in {"filter", "done"} =>
             \A i \in 1..Len(buffer) :
                 IF RowOf(i) \in rows
                 THEN buffer[i] = FilteredFromSource(i)
                 ELSE rgb_to_yc_only(buffer[i][1], buffer[i][2], buffer[i][3])
                         = ycbcr_buffer[i])

(* both rows are finished and a pixel of the second row got a chroma other  *)
(* than its own, which it can only have from the first row of ycbcr_buffer  *)
C18_Witness ==
    /\ dpc = "done"
    /\ rows = 0..(DnH - 1)
    /\ \E i \in 1..Len(buffer) :
          /\ RowOf(i) = 1
          /\ out_chroma[i] # <<ycbcr_buffer[i][2], ycbcr_buffer[i][3]>>
          /\ buffer[i] = FilteredFromSource(i)

----------------------------------------------------------------------------
(* Properties of the levels of the highlight stage *)

(* originalWhite - originalBlack, and the denominator the claim describes *)
LevelSpan == FSub(original_white_level, original_black_level)
FlooredSpan == IF FLt(LevelSpan, FromInt(1)) THEN FromInt(1) ELSE LevelSpan

(* C24: the rescale factor is (headroom - originalBlack) divided by         *)
(* max(originalWhite - originalBlack, 1.0); the divisor is never below 1.0, *)
(* also when originalWhite <= originalBlack, and for a black level within   *)
(* the headroom the factor is non-negative and at most the headroom         *)
C24_DenominatorFloored ==
    hpc \in {"pixel", "visited"} =>
        /\ ~FLt(FlooredSpan, FromInt(1))
        /\ locals.rescale_factor
              = FDiv(FSub(F(0, Two(23), 9), original_black_level), FlooredSpan)
        /\ locals.rescale_factor.s = 0
        /\ FLe(locals.rescale_factor, F(0, Two(23), 9))

(* white below black: the span is negative, the divisor is 1.0 and the      *)
(* factor is the whole headroom above the black level                       *)
C24_Witness ==
    /\ hpc = "visited"
    /\ LevelSpan.s = 1
    /\ locals.rescale_factor = FSub(F(0, Two(23), 9), original_black_level)
    /\ FLt(FromInt(1), locals.rescale_factor)

(* the effective compression point the claim describes: max(c, 1.01) *)
EffectivePoint ==
    IF FLt(highlight_compression, Dec(101, 100)) THEN Dec(101, 100) ELSE highlight_compression
(* the closure has visited a pixel whose rescaled maximum is at or above    *)
(* the effective compression point                                          *)
AtOrAbovePoint == hpc = "visited" /\ FLe(EffectivePoint, Max3(RescaledSample))

(* C27 as stated: a pixel whose rescaled maximum is at or above the         *)
(* effective compression point is written as (max, max, max)                *)
C27_AsStated ==
    AtOrAbovePoint
        => pixel = <<Max3(RescaledSample), Max3(RescaledSample), Max3(RescaledSample)>>

(* C27: the effective compression point is max(c, 1.01), so the divisor     *)
(* c_eff - 1 is positive; a pixel whose rescaled maximum is at or above it  *)
(* gets compression factor 0 and is written with three equal channels whose *)
(* value is the maximum up to f32 rounding (within 2^-22 of it), and is     *)
(* exactly the maximum when the minimum channel is at most 1e-6             *)
C27_NeutralAtOrAbovePoint ==
    /\ hpc \in {"pixel", "visited"} =>
          /\ locals.safe_highlight_compression = EffectivePoint
          /\ FLt(FZero, FSub(EffectivePoint, FromInt(1)))
    /\ AtOrAbovePoint =>
          /\ locals.compression_factor = FZero
          /\ pixel[1] = pixel[2]
          /\ pixel[2] = pixel[3]
          /\ FLe(FAbs(FSub(pixel[1], Max3(RescaledSample))),
                 FMul(Max3(RescaledSample), Tolerance))
          /\ FLe(Min3(RescaledSample), Dec(1, 1000000))
                => pixel[1] = Max3(RescaledSample)

(* a pixel at or above the floored point 1.01 (the caller gave 1.0) with    *)
(* three different channels, written as a grey one rounding step off the    *)
(* maximum                                                                  *)
C27_Witness ==
    /\ AtOrAbovePoint
    /\ highlight_compression = FromInt(1)
    /\ sample[1] # sample[2]
    /\ Min3(RescaledSample) # FZero
    /\ pixel[1] = pixel[2]
    /\ pixel[2] = pixel[3]
    /\ pixel[1] # Max3(RescaledSample)

----------------------------------------------------------------------------
(* Properties of develop_internal *)

AfterDevelop == {"levels", "poll_highlight", "highlight", "poll_convert", "convert", "done"}

(* C26: develop_internal never fails with "Unsupported intermediate format  *)
(* for f32 conversion": its steps are the default ones without SRgb, so     *)
(* Calibrate is among them, and once develop_intermediate has succeeded the *)
(* intermediate is ThreeColor or Monochrome, never FourColor                *)
C26_FourColorNeverConverted ==
    /\ err # "Unsupported intermediate format for f32 conversion"
    /\ pc \in AfterDevelop =>
          /\ \E i \in 1..Len(steps) : steps[i] = "Calibrate"
          /\ \A i \in 1..Len(steps) : steps[i] # "SRgb"
          /\ intermediate.variant \in {"ThreeColor", "Monochrome"}

(* a four-colour CFA image, demosaiced to FourColor, mapped to RGB by the   *)
(* calibration and converted                                                *)
C26_Witness ==
    /\ pc = "done"
    /\ intermediate.demosaic \in {"Bilinear4Channel", "Superpixel4Channel"}
    /\ intermediate.map = "map_4ch_to_rgb"
    /\ intermediate.variant = "ThreeColor"
    /\ image # None

----------------------------------------------------------------------------
(* decode_image_from_bytes (pwa/wasm/src/lib.rs) on a RAW file, built with  *)
(* the raw-processing feature                                               *)

(* mutant of DecodeImageFromBytes: the chroma filter runs after a fast      *)
(* development as well                                                      *)
DecodeImageFromBytesAlwaysEnhance ==
    /\ pc \in {"done", "err"}
    /\ decoded = None
    /\ IF pc = "err"
       THEN /\ decoded' = Some([ok |-> FALSE, err |-> <<"raw decode failed: ", err>>])
            /\ ran' = ran
       ELSE /\ decoded' = Some([ok |-> TRUE,
                                image |-> [Oriented(Unwrap(image)) EXCEPT !.from = "enhanced"]])
            /\ ran' = Append(ran, "ChromaDenoise")
    /\ UNCHANGED <<original_white_level, original_black_level, highlight_compression,
                   pixel, sample, locals, hpc, denoise, lens, loaded, entry>>
    /\ UNCHANGED <<caller, steps, demosaic_algorithm, rawimage, intermediate, wb, xyz2cam,
                   pc, err, aa_used, wb_kept, outside>>

(* lines 12-27: develop_raw_image has returned; its error is wrapped, its   *)
(* image goes through remove_raw_artifacts_and_enhance unless the           *)
(* development was the fast one                                             *)
DecodeImageFromBytes ==
    /\ pc \in {"done", "err"}
    /\ decoded = None
    /\ IF pc = "err"
       THEN /\ decoded' = Some([ok |-> FALSE, err |-> <<"raw decode failed: ", err>>])
            /\ ran' = ran
       ELSE IF ~fast_demosaic
       THEN /\ decoded' = Some([ok |-> TRUE,
                                image |-> [Oriented(Unwrap(image)) EXCEPT !.from = "enhanced"]])
            /\ ran' = Append(ran, "ChromaDenoise")
       ELSE /\ decoded' = Some([ok |-> TRUE, image |-> Oriented(Unwrap(image))])
            /\ ran' = ran
    /\ UNCHANGED <<original_white_level, original_black_level, highlight_compression,
                   pixel, sample, locals, hpc, denoise, lens, loaded, entry>>
    /\ UNCHANGED <<caller, steps, demosaic_algorithm, rawimage, intermediate, wb, xyz2cam,
                   pc, err, aa_used, wb_kept, outside>>

(* line 16-21: the call passes None as cancel token *)
InitDecode ==
    /\ InitInternal
    /\ cancel_token = None
    /\ tracker = 0

NextDecode == DevelopInternal \/ DevelopIntermediate \/ DecodeImageFromBytes
SpecDecode == InitDecode /\ [][NextDecode]_vars

(* the stages the claim names, in the order they ran *)
NamedStages ==
    SelectSeq(ran, LAMBDA st : st \in {"Demosaic", "Calibrate", "Highlight", "CropDefault",
                                       "SRgb", "ChromaDenoise"})
Developed == decoded # None /\ Unwrap(decoded).ok

(* C22 as stated: a full development runs Demosaic, Calibrate, highlight    *)
(* recovery, the default crop, the tone encoding and the chroma denoise in  *)
(* this order                                                               *)
C22_AsStated ==
    (Developed /\ ~fast_demosaic)
        => NamedStages = <<"Demosaic", "Calibrate", "Highlight", "CropDefault", "SRgb",
                           "ChromaDenoise">>

(* C22: a development that succeeds runs Rescale, Demosaic, Calibrate, the  *)
(* default crop and then highlight recovery, in this order, without tone    *)
(* encoding; the chroma denoise follows as the last stage unless the        *)
(* development is the fast one                                              *)
C22_StageOrder ==
    Developed =>
        ran = <<"Rescale", "Demosaic", "Calibrate", "CropDefault", "Highlight">>
                \o (IF fast_demosaic THEN <<>> ELSE <<"ChromaDenoise">>)

(* a Bayer image with a default crop, developed at full quality, cropped    *)
(* before the highlight stage and denoised at the end                       *)
C22_Witness ==
    /\ Developed
    /\ ~fast_demosaic
    /\ intermediate.demosaic = "PPGDemosaic"
    /\ IsSome(intermediate.crop)
    /\ intermediate.highlight = "rescale, compress highlights"
    /\ Unwrap(decoded).image.from = "enhanced"
    /\ ran[Len(ran)] = "ChromaDenoise"

----------------------------------------------------------------------------
(* The default crop after a Speed demosaic *)

(* the default crop before scaling: intersected with the active area and    *)
(* moved to its origin when Demosaic and CropActiveArea are both asked for  *)
(* and the image has an active area                                         *)
UnscaledCrop ==
    IF /\ Contains(steps, "Demosaic")
       /\ Contains(steps, "CropActiveArea")
       /\ IsSome(rawimage.active_area)
    THEN RectAdapt(RectIntersection(Unwrap(rawimage.crop_area), Unwrap(rawimage.active_area)),
                   Unwrap(rawimage.active_area))
    ELSE Unwrap(rawimage.crop_area)

(* a superpixel demosaic has halved the image *)
HalvedBySpeed ==
    intermediate.demosaic \in {"SuperpixelQuarterRes3Channel", "XTransSuperpixelDemosaic",
                               "Superpixel4Channel"}

(* C23 as stated: after a Speed demosaic the crop the CropDefault stage     *)
(* applies is the default crop (intersected with the active area under the  *)
(* stated condition) at half size                                           *)
C23_AsStated ==
    [][(pc = "crop" /\ HalvedBySpeed /\ CropIsApplied)
          => intermediate'.crop = Some(RectScale(UnscaledCrop, 1, 2))]_vars

----------------------------------------------------------------------------
(* The divisor of the interpolation *)

(* the least spans the resolver divides by *)
SpanFloor == Dec(1, 100000)
VigSpanFloor == Dec(1, 100)

(* the span of the adjacent pair (i, i+1) of a table sorted by focal length *)
Span(v, i) == FAbs(FSub(v[i + 1].focal, v[i].focal))
(* entry k is at or below the query and closer than 1e-5 to it *)
JustBelow(v, k) ==
    FLe(v[k].focal, focal_length) /\ FLt(FSub(focal_length, v[k].focal), SpanFloor)
StoredTca(e) == <<OrOne(e.vr), OrOne(e.vb)>>
VigInterior(v) ==
    /\ ~FLe(focal_length, FAdd(v[1].focal, VigSpanFloor))
    /\ ~FLe(FSub(v[Len(v)].focal, VigSpanFloor), focal_length)

----------------------------------------------------------------------------
(* Where the resolved coefficients come from *)

(* x lies between a and b (f64 values compared after narrowing to f32) *)
LiesBetween(x, a, b) ==
    \/ FLe(Narrow(a), Narrow(x)) /\ FLe(Narrow(x), Narrow(b))
    \/ FLe(Narrow(b), Narrow(x)) /\ FLe(Narrow(x), Narrow(a))
(* every coefficient equals an entry's or lies between two entries' *)
DerivedFrom(result, table, Coefficients(_)) ==
    \E i, j \in 1..Len(table) :
        \A k \in 1..Len(result) :
            LiesBetween(result[k], Coefficients(table[i])[k], Coefficients(table[j])[k])

(* C28 as stated: for a non-empty table the resolved coefficients of each   *)
(* category equal one entry's coefficients or lie, coefficient by           *)
(* coefficient, between those of two entries; the placeholder of the        *)
(* interpolation loop is never the result                                   *)
C28_AsStated ==
    Returned =>
        /\ DistortionTable # <<>> => DerivedFrom(ResolvedDistortion, DistortionTable, Read)
        /\ TcaTable # <<>> => DerivedFrom(ResolvedTca, TcaTable, StoredTca)
        /\ VignettingTable # <<>>
              => DerivedFrom(ResolvedVignetting, VignettingTable, extract_vig_params)

----------------------------------------------------------------------------
(* The command get_lens_distortion_params (lens_correction.rs)              *)

(* iter().find(|l| l.get_maker() == maker && l.get_name() == model): the    *)
(* index of the first lens of that maker and name, 0 when there is none     *)
FindLens(db, mk, nm) ==
    IF \E i \in 1..Len(db) : db[i].maker = mk /\ db[i].name = nm
    THEN CHOOSE i \in 1..Len(db) :
            /\ db[i].maker = mk /\ db[i].name = nm
            /\ \A j \in 1..(i - 1) : ~(db[j].maker = mk /\ db[j].name = nm)
    ELSE 0

(* lines 525-540: lock().unwrap() panics on a poisoned mutex; otherwise the *)
(* command returns Ok with the parameters of the first matching lens, or    *)
(* Ok(None)                                                                 *)
GetLensDistortionParams ==
    /\ reply = None
    /\ reply' =
         IF lens_db.poisoned THEN Some([outcome |-> "panic"])
         ELSE IF IsSome(lens_db.db) /\ FindLens(Unwrap(lens_db.db), maker, model) # 0
         THEN LET db == Unwrap(lens_db.db)
                  lens_found == db[FindLens(db, maker, model)]
              IN  Some([outcome |-> "Ok",
                        value |-> get_distortion_params(lens_found.calibration,
                                                        focal_length, aperture, distance)])
         ELSE Some([outcome |-> "Ok", value |-> None])
    /\ UNCHANGED <<lens_db, maker, model, inpaint, tiff, loaded, decoded>>
    /\ UNCHANGED <<original_white_level, original_black_level, highlight_compression,
                   pixel, sample, locals, hpc, denoise, lens>>
    /\ UNCHANGED <<caller, steps, demosaic_algorithm, rawimage, intermediate, wb, xyz2cam,
                   pc, err, ran, aa_used, wb_kept, outside>>

(* Inputs of the command *)
LensOf(mk, nm, cal) == [maker |-> mk, name |-> nm, calibration |-> cal]
LensPool ==
    <<LensOf("Canon", "EF 24-70", Some(FixedDistortion \o FixedTca \o FixedVignetting)),
      LensOf("Canon", "EF 24-70", None),
      LensOf("Sigma", "EF 24-70", Some(<<>>)),
      LensOf("Canon", "RF 50", None),
      LensOf("Sigma", "RF 50", Some(FixedTca))>>
Databases ==
    {[poisoned |-> TRUE, db |-> None], [poisoned |-> FALSE, db |-> None]}
        \cup {[poisoned |-> FALSE, db |-> Some(t)] : t \in TablesOf(LensPool)}

InitCommand ==
    /\ PipelineAtHighlight
    /\ original_white_level = <<>>
    /\ original_black_level = <<>>
    /\ highlight_compression = <<>>
    /\ pixel = <<>>
    /\ sample = <<>>
    /\ locals = <<>>
    /\ hpc = "off"
    /\ DenoiseOff
    /\ loaded = <<>>
    /\ decoded = <<>>
    /\ InpaintOff
    /\ TiffOff
    /\ calibration = <<>>
    /\ params = <<>>
    /\ lpc = "off"
    /\ focal_length \in {FromInt(24), FromInt(40)}
    /\ aperture \in {None, Some(Dec(28, 10))}
    /\ distance = None
    /\ lens_db \in Databases
    /\ maker \in {"Canon", "Sigma", "Nikon"}
    /\ model \in {"EF 24-70", "RF 50"}
    /\ reply = None

NextCommand == GetLensDistortionParams
SpecCommand == InitCommand /\ [][NextCommand]_vars

(* the lenses of the database that have the maker and name asked for *)
Hits ==
    LET db == UnwrapOr(lens_db.db, <<>>)
    IN  {i \in 1..Len(db) : db[i].maker = maker /\ db[i].name = model}
FirstHit ==
    Unwrap(lens_db.db)[CHOOSE i \in Hits : \A j \in Hits : i <= j]
NeutralParams ==
    [k1 |-> DZero, k2 |-> DZero, k3 |-> DZero, model |-> 0,
     tca_vr |-> DOne, tca_vb |-> DOne,
     vig_k1 |-> DZero, vig_k2 |-> DZero, vig_k3 |-> DZero]

(* C29: the command never returns an error: it returns Ok(None) when the    *)
(* database is not loaded or has no lens of that maker and name; for the    *)
(* first such lens it returns None exactly when the lens has no calibration *)
(* block, and Some with the nine parameters of the three categories         *)
(* otherwise, the neutral ones for a block without elements                 *)
C29_NoneOnlyWithoutCalibration ==
    (reply # None /\ ~lens_db.poisoned) =>
        /\ Unwrap(reply).outcome = "Ok"
        /\ IF Hits = {}
           THEN Unwrap(reply).value = None
           ELSE /\ (Unwrap(reply).value = None) <=> (FirstHit.calibration = None)
                /\ FirstHit.calibration = Some(<<>>)
                      => Unwrap(reply).value = Some(NeutralParams)
                /\ Unwrap(reply).value # None
                      => DOMAIN Unwrap(Unwrap(reply).value) = DOMAIN NeutralParams

(* the lens found has a calibration block without elements and the command  *)
(* returned the neutral parameters                                          *)
C29_Witness ==
    /\ reply # None
    /\ ~lens_db.poisoned
    /\ Hits # {}
    /\ FirstHit.calibration = Some(<<>>)
    /\ Unwrap(reply) = [outcome |-> "Ok", value |-> Some(NeutralParams)]

----------------------------------------------------------------------------
(* process_inpainting (ai_connector.rs): one call, followed from await to   *)
(* await                                                                    *)

(* StatusCode::is_success: 200..=299 *)
IsSuccess(status) == status >= 200 /\ status <= 299

(* mutant of NeedsUpload: every failed first request is followed by an      *)
(* upload                                                                   *)
NeedsUploadOnFailure(status) == ~IsSuccess(status)

(* line 120: response.status() == 404 *)
NeedsUpload(status) == status = 404

Failed(e) == Some([ok |-> FALSE, err |-> e])

(* the statuses a server answers with *)
Statuses == {200, 201, 302, 400, 404, 500}

(* lines 78-90: composite_full_res: an image of the full size, or the       *)
(* error of decoding the returned crop                                      *)
composite_full_res(decodes, full) ==
    IF decodes THEN Some([ok |-> TRUE, image |-> [width |-> full.w, height |-> full.h]])
    ELSE Failed("composite")

(* lines 130-134 and 126-134: response.json().await? and the composite *)
ReadAndComposite(parses, decodes) ==
    /\ inpainted' = IF parses THEN composite_full_res(decodes, full_source_image)
                    ELSE Failed("json")
    /\ ai_pc' = "returned"

(* what a step of process_inpainting leaves alone *)
OutsideInpaint ==
    /\ UNCHANGED <<command, tiff, loaded, decoded, full_source_image>>
    /\ UNCHANGED <<original_white_level, original_black_level, highlight_compression,
                   pixel, sample, locals, hpc, denoise, lens>>
    /\ UNCHANGED <<caller, steps, demosaic_algorithm, rawimage, intermediate, wb, xyz2cam,
                   pc, err, ran, aa_used, wb_kept, outside>>

(* lines 105-117: the source id and the mask, each of which can fail *)
StartInpainting ==
    /\ ai_pc = "start"
    /\ \E outcome \in {"ok", "source id", "mask"} :
          IF outcome = "ok"
          THEN ai_pc' = "post" /\ inpainted' = inpainted
          ELSE ai_pc' = "returned" /\ inpainted' = Failed(outcome)
    /\ UNCHANGED <<sent, response>>
    /\ OutsideInpaint

(* lines 118 and 122: client.post(&url).json(&payload).send().await?, the   *)
(* first request and the one after the upload                               *)
PostInpaint ==
    /\ ai_pc \in {"post", "retry"}
    /\ sent' = Append(sent, "inpaint")
    /\ \/ /\ ai_pc' = "returned"
          /\ inpainted' = Failed("send")
          /\ response' = response
       \/ \E status \in Statuses :
             /\ response' = Append(response, status)
             /\ ai_pc' = IF ai_pc = "post" THEN "responded" ELSE "retried"
             /\ inpainted' = inpainted
    /\ OutsideInpaint

(* lines 120-131: the branch on the first response; on 404 the JPEG of the  *)
(* source image is encoded (lines 56-64) before the upload is sent          *)
FirstResponse ==
    /\ ai_pc = "responded"
    /\ IF NeedsUpload(response[1])
       THEN \E encodes \in BOOLEAN :
               IF encodes THEN ai_pc' = "upload" /\ inpainted' = inpainted
               ELSE ai_pc' = "returned" /\ inpainted' = Failed("jpeg")
       ELSE IF ~IsSuccess(response[1])
       THEN \E reads \in BOOLEAN :
               /\ ai_pc' = "returned"
               /\ inpainted' = Failed(IF reads THEN "AI generation failed" ELSE "text")
       ELSE \E parses, decodes \in BOOLEAN : ReadAndComposite(parses, decodes)
    /\ UNCHANGED <<sent, response>>
    /\ OutsideInpaint

(* lines 66-75: the upload is sent and its response is looked at *)
UploadSourceImage ==
    /\ ai_pc = "upload"
    /\ sent' = Append(sent, "upload_source")
    /\ \/ /\ ai_pc' = "returned"
          /\ inpainted' = Failed("send")
          /\ response' = response
       \/ \E status \in Statuses, reads \in BOOLEAN :
             /\ response' = Append(response, status)
             /\ IF IsSuccess(status)
                THEN ai_pc' = "retry" /\ inpainted' = inpainted
                ELSE /\ ai_pc' = "returned"
                     /\ inpainted' = Failed(IF reads THEN "Upload failed" ELSE "text")
    /\ OutsideInpaint

(* lines 123-126: the response to the second request *)
RetryResponse ==
    /\ ai_pc = "retried"
    /\ IF ~IsSuccess(response[3])
       THEN \E reads \in BOOLEAN :
               /\ ai_pc' = "returned"
               /\ inpainted' = Failed(IF reads THEN "AI generation failed after upload"
                                      ELSE "text")
       ELSE \E parses, decodes \in BOOLEAN : ReadAndComposite(parses, decodes)
    /\ UNCHANGED <<sent, response>>
    /\ OutsideInpaint

(* the sizes of the source image *)
SourceSizes == {Dim2(w, h) : w \in {RawW, RawW \div 2}, h \in {RawH, RawH \div 2}}

InitInpaint ==
    /\ PipelineAtHighlight
    /\ original_white_level = <<>>
    /\ original_black_level = <<>>
    /\ highlight_compression = <<>>
    /\ pixel = <<>>
    /\ sample = <<>>
    /\ locals = <<>>
    /\ hpc = "off"
    /\ DenoiseOff
    /\ LensOff
    /\ loaded = <<>>
    /\ decoded = <<>>
    /\ CommandOff
    /\ TiffOff
    /\ ai_pc = "start"
    /\ full_source_image \in SourceSizes
    /\ sent = <<>>
    /\ response = <<>>
    /\ inpainted = <<>>

NextInpaint ==
    \/ StartInpainting
    \/ PostInpaint
    \/ FirstResponse
    \/ UploadSourceImage
    \/ RetryResponse
SpecInpaint == InitInpaint /\ [][NextInpaint]_vars

(* the requests of one kind among those sent *)
Requests(kind) == Len(SelectSeq(sent, LAMBDA r : r = kind))
Succeeded(status) == status \in 200..299

(* C30: one call sends the inpaint request at most twice and the upload at  *)
(* most once, in the order inpaint, upload, inpaint; the upload follows a   *)
(* first response of status 404 only, the second inpaint request follows a  *)
(* successful upload only; the call ends with an error, without any further *)
(* request, on a second response that is not a success and on a first       *)
(* response that is neither a success nor 404; a call that has returned     *)
(* sends nothing                                                            *)
C30_AtMostOneRetry ==
    /\ [](/\ Requests("inpaint") <= 2
          /\ Requests("upload_source") <= 1
          /\ \E n \in 0..3 : sent = SubSeq(<<"inpaint", "upload_source", "inpaint">>, 1, n)
          /\ Len(sent) >= 2 => response[1] = 404
          /\ Len(sent) = 3 => Succeeded(response[2])
          /\ (ai_pc = "returned" /\ Len(response) = 3 /\ ~Succeeded(response[3]))
                => ~Unwrap(inpainted).ok
          /\ (ai_pc = "returned" /\ Len(response) >= 1
                /\ ~Succeeded(response[1]) /\ response[1] # 404)
                => ~Unwrap(inpainted).ok /\ sent = <<"inpaint">>)
    /\ [][(Len(response) = 3 /\ ~Succeeded(response[3])) => sent' = sent]_vars
    /\ [][ai_pc = "returned" => sent' = sent]_vars

(* the first request was answered 404, the upload succeeded and the second  *)
(* request was refused: the call has ended with an error after three        *)
(* requests                                                                 *)
C30_Witness ==
    /\ ai_pc = "returned"
    /\ sent = <<"inpaint", "upload_source", "inpaint">>
    /\ response = <<404, 200, 404>>
    /\ inpainted = Failed("AI generation failed after upload")

----------------------------------------------------------------------------
(* RawDevelop::develop (develop.rs): the developed image written as TIFF    *)

(* the number of values of a u16 *)
U16Limit == 65536

(* `as u16` on a usize: the low 16 bits *)
AsU16(n) == n % U16Limit

(* the channels of an Intermediate *)
ChannelsOf(variant) ==
    CASE variant = "Monochrome" -> 1
      [] variant = "ThreeColor" -> 3
      [] variant = "FourColor"  -> 4

(* lines 322-369: the tags the root directory gets for the image data *)
RootIfd(im) ==
    [Compression |-> 5,
     Predictor |-> 1,
     BitsPerSample |-> [c \in 1..ChannelsOf(im.variant) |-> 16],
     SamplesPerPixel |-> <<ChannelsOf(im.variant)>>,
     PhotometricInt |-> <<IF im.variant = "Monochrome" THEN 1 ELSE 2>>,
     ImageWidth |-> AsU16(im.dim.w),
     ImageLength |-> AsU16(im.dim.h)]

(* lines 299-374: the error of develop_intermediate is handed on; the       *)
(* writer can fail at any of its calls; otherwise the file is written       *)
Develop ==
    /\ pc \in {"ok", "err"}
    /\ tiff = None
    /\ IF pc = "err"
       THEN tiff' = Some([ok |-> FALSE, err |-> err])
       ELSE \E written \in BOOLEAN :
               tiff' = IF written THEN Some([ok |-> TRUE, root_ifd |-> RootIfd(intermediate)])
                       ELSE Some([ok |-> FALSE, err |-> "io"])
    /\ UNCHANGED <<command, inpaint, loaded, decoded>>
    /\ UNCHANGED <<original_white_level, original_black_level, highlight_compression,
                   pixel, sample, locals, hpc, denoise, lens>>
    /\ UNCHANGED <<caller, steps, demosaic_algorithm, rawimage, intermediate, wb, xyz2cam,
                   pc, err, ran, aa_used, wb_kept, outside>>

(* images up to and beyond the widths and heights a u16 holds *)
Widths == {RawW, U16Limit - 1, U16Limit, 2 * (U16Limit + RawW)}
Heights == {RawH, U16Limit + RawH}
TiffCalls ==
    {Call(l, a, [RawImage(s, None, crop, WbMixed, CmFull) EXCEPT !.width = w, !.height = h]) :
        l \in {DefaultSteps, RetainNot(DefaultSteps, "Demosaic"),
               RetainNot(DefaultSteps, "CropDefault")},
        a \in Algorithms, s \in FewSensors, crop \in {None, Some(CropInner)},
        w \in Widths, h \in Heights}

InitTiff ==
    \E c \in TiffCalls :
        /\ caller = "direct"
        /\ steps = c.steps
        /\ demosaic_algorithm = c.alg
        /\ rawimage = c.raw
        /\ intermediate = NoIntermediate
        /\ wb = <<>>
        /\ xyz2cam = <<>>
        /\ pc = "rescale"
        /\ err = ""
        /\ ran = <<>>
        /\ aa_used = {}
        /\ wb_kept = FALSE
        /\ file = NoFile
        /\ fast_demosaic = FALSE
        /\ cancel_token = None
        /\ tracker = 0
        /\ image = None
        /\ polls = <<>>
        /\ NumericOff

NextTiff == DevelopIntermediate \/ Develop
SpecTiff == InitTiff /\ [][NextTiff]_vars

(* C21 as stated: the header of a written file describes the Intermediate:  *)
(* SamplesPerPixel is its channel count, BitsPerSample is 16 for each       *)
(* channel, Compression is LZW (5) with Predictor 1, ImageWidth and         *)
(* ImageLength are its width and height                                     *)
C21_AsStated ==
    (tiff # None /\ Unwrap(tiff).ok) =>
        LET ifd == Unwrap(tiff).root_ifd
        IN  /\ ifd.SamplesPerPixel = <<ChannelsOf(intermediate.variant)>>
            /\ Len(ifd.BitsPerSample) = ChannelsOf(intermediate.variant)
            /\ \A c \in 1..Len(ifd.BitsPerSample) : ifd.BitsPerSample[c] = 16
            /\ ifd.Compression = 5
            /\ ifd.Predictor = 1
            /\ ifd.ImageWidth = intermediate.dim.w
            /\ ifd.ImageLength = intermediate.dim.h

====
